---- MODULE Spec2Model ----
(***************************************************************************)
(* A model of kpatch-build/create-diff-object.c: the ELF object            *)
(* differencing engine.  One run of main() is one behaviour: the two       *)
(* input objects are chosen in Init, and each stage of main() is an action *)
(* on the in-memory graphs (struct kpatch_elf) of the base object, the     *)
(* patched object and the output object.                                   *)
(*                                                                         *)
(* Pointers are positions in the owning table (1-based), 0 is NULL.  A     *)
(* symbol pointer p denotes C index p - 1, so the null symbol (index 0)    *)
(* is pointer 1.  Strings are sequences of one-character strings.          *)
(***************************************************************************)
EXTENDS Integers, Sequences, FiniteSets, TLC

(***************************************************************************)
(* Bounds of the input family.                                             *)
(***************************************************************************)
\* most relocation entries in .rela.text.foo of an input object
MaxRelas == 2

(***************************************************************************)
(* Constants of <elf.h> as the program uses them.                          *)
(***************************************************************************)
SHT_PROGBITS == 1
SHT_SYMTAB == 2
SHT_STRTAB == 3
SHT_RELA == 4
SHT_NOBITS == 8
SHF_STRINGS == 32
SHN_UNDEF == 0
SHN_LORESERVE == 65280
SHN_ABS == 65521
SHN_COMMON == 65522
STB_LOCAL == 0
STB_GLOBAL == 1
STT_NOTYPE == 0
STT_OBJECT == 1
STT_FUNC == 2
STT_SECTION == 3
STT_FILE == 4
EV_CURRENT == 1
ELFCLASSNONE == 0
ELFCLASS32 == 1
ELFCLASS64 == 2
EI_CLASS == 4
EI_DATA == 5
EI_VERSION == 6
EI_OSABI == 7
EI_NIDENT == 16

NULL == 0

(* enum status; NEW is a reserved word of TLA+ *)
STATUS_NEW == "NEW"
CHANGED == "CHANGED"
SAME == "SAME"

(***************************************************************************)
(* Strings.  NULLSTR is the char* NULL; a C string in a buffer ends at the *)
(* first NUL.                                                              *)
(***************************************************************************)
NUL == "NUL"
NULLSTR == <<"(null)">>

strlen(s) == Len(s)

RECURSIVE CStrFrom(_, _)
CStrFrom(buf, pos) ==
    IF pos > Len(buf) \/ buf[pos] = NUL THEN <<>>
    ELSE <<buf[pos]>> \o CStrFrom(buf, pos + 1)

\* the C string at byte offset off of buffer buf
CStr(buf, off) == CStrFrom(buf, off + 1)

\* whether a NUL-terminated string starts at offset off inside buf
HasCStr(buf, off) ==
    /\ off >= 0
    /\ off < Len(buf)
    /\ \E e \in (off + 1)..Len(buf) : buf[e] = NUL

N_rela == <<".", "r", "e", "l", "a">>
N_text_foo == <<".", "t", "e", "x", "t", ".", "f", "o", "o">>
N_text_bar == <<".", "t", "e", "x", "t", ".", "b", "a", "r">>
N_data_x == <<".", "d", "a", "t", "a", ".", "x">>
N_rodata_str == <<".", "r", "o", "d", "a", "t", "a", ".", "s", "t", "r">>
N_rodata == <<".", "r", "o", "d", "a", "t", "a">>
N_shstrtab == <<".", "s", "h", "s", "t", "r", "t", "a", "b">>
N_symtab == <<".", "s", "y", "m", "t", "a", "b">>
N_strtab == <<".", "s", "t", "r", "t", "a", "b">>
N_ksymtab_strings ==
    <<"_", "_", "k", "s", "y", "m", "t", "a", "b", "_", "s", "t", "r", "i", "n", "g", "s">>
N_file == <<"a", ".", "c">>
N_foo == <<"f", "o", "o">>
N_bar == <<"b", "a", "r">>
N_x == <<"x">>
N_L == <<"L">>
N_printf == <<"p", "r", "i", "n", "t", "f">>
N_cmn == <<"c", "m", "n">>

(***************************************************************************)
(* Symbol and relocation info packing (gelf.h macros).                     *)
(***************************************************************************)
GELF_ST_INFO(bind, type) == bind * 16 + (type % 16)
GELF_ST_BIND(info) == info \div 16
GELF_ST_TYPE(info) == info % 16

\* r_info is 64 bits wide (sym << 32 | type); it is kept as the pair of
\* its two 32-bit halves.
GELF_R_INFO(sym, type) == [sym |-> sym, type |-> type]
GELF_R_SYM(info) == info.sym
GELF_R_TYPE(info) == info.type

(***************************************************************************)
(* The input objects.  An object file is described by a configuration c    *)
(* and built by MkFile(c) as the tables libelf hands to the loader: the    *)
(* ELF header, the section headers with their names and data, the symbol   *)
(* records with their names, and the relocation records.                   *)
(*                                                                         *)
(* The translation unit holds function foo (.text.foo), optionally a       *)
(* local function bar (.text.bar, which calls foo), a local object x and   *)
(* optionally a local label L (.data.x), a string section .rodata.str, a   *)
(* jump table .rodata that points back into .text.foo, the undefined       *)
(* symbol printf and optionally a common object cmn.  c.relas says which   *)
(* of the references below foo makes; the last is a call of foo itself.    *)
(* Section names and symbol names are unique within an object, and         *)
(* relocation offsets are unique within a relocation section.  No symbol   *)
(* is bound to a relocation section, so                                    *)
(* the two arms of the union in struct section ({base, relas} and          *)
(* {rela, secsym, sym}) are never read through each other and are kept as  *)
(* separate fields.                                                        *)
(***************************************************************************)
SecIndexByName(names, n) ==
    IF \E i \in 1..Len(names) : names[i] = n
    THEN CHOOSE i \in 1..Len(names) : names[i] = n
    ELSE 0

\* the references foo can make: target symbol (by display name), type, addend
RelaChoices == 1..7
RelaChoice(k) ==
    CASE k = 1 -> [target |-> N_printf, type |-> 4, addend |-> -4]
      [] k = 2 -> [target |-> N_text_bar, type |-> 2, addend |-> -4]
      [] k = 3 -> [target |-> N_data_x, type |-> 11, addend |-> 0]
      [] k = 4 -> [target |-> N_rodata_str, type |-> 11, addend |-> 0]
      [] k = 5 -> [target |-> N_L, type |-> 11, addend |-> 4]
      [] k = 6 -> [target |-> N_rodata, type |-> 11, addend |-> 0]
      [] k = 7 -> [target |-> N_foo, type |-> 4, addend |-> -4]

StrData(v) == <<"h", IF v = 1 THEN "i" ELSE "o", NUL, "y", "o", NUL>>

\* symbol descriptors in symbol-table order; key is the display name
SymDescs(c) ==
    LET D(key, name, bind, type, sec, shndx, value, size) ==
            [key |-> key, name |-> name, bind |-> bind, type |-> type, sec |-> sec,
             shndx |-> shndx, value |-> value, size |-> size]
        SecSym(n) == D(n, <<>>, STB_LOCAL, STT_SECTION, n, 0, 0, 0)
    IN  <<D(NULLSTR, NULLSTR, 0, 0, <<>>, SHN_UNDEF, 0, 0),
          D(N_file, N_file, STB_LOCAL, STT_FILE, <<>>, SHN_ABS, 0, 0),
          SecSym(N_text_foo)>>
        \o (IF c.bar THEN <<SecSym(N_text_bar)>> ELSE <<>>)
        \o <<SecSym(N_data_x), SecSym(N_rodata_str), SecSym(N_rodata),
             D(N_x, N_x, STB_LOCAL, STT_OBJECT, N_data_x, 0, 0, c.xSize)>>
        \o (IF c.hasL
            THEN <<D(N_L, N_L, STB_LOCAL, STT_NOTYPE, c.secL, 0, 4, 0)>> ELSE <<>>)
        \o (IF c.bar
            THEN <<D(N_bar, N_bar, STB_LOCAL, STT_FUNC, N_text_bar, 0, 0, 1)>> ELSE <<>>)
        \o <<D(N_foo, N_foo, c.fooBind, STT_FUNC, N_text_foo, 0, c.fooValue, 1),
             D(N_printf, N_printf, STB_GLOBAL, STT_NOTYPE, <<>>, SHN_UNDEF, 0, 0)>>
        \o (IF c.cmn
            THEN <<D(N_cmn, N_cmn, STB_GLOBAL, STT_OBJECT, <<>>, SHN_COMMON, 4, 4)>>
            ELSE <<>>)

\* C index of the symbol with display name key, -1 when the object has none
SymIndexByKey(c, key) ==
    LET ds == SymDescs(c)
    IN  IF \E i \in 1..Len(ds) : ds[i].key = key
        THEN (CHOOSE i \in 1..Len(ds) : ds[i].key = key) - 1
        ELSE -1

RECURSIVE SetToSeq(_)
SetToSeq(S) ==
    IF S = {} THEN <<>>
    ELSE LET m == CHOOSE x \in S : \A y \in S : x <= y
         IN  <<m>> \o SetToSeq(S \ {m})

\* the relocation records of .rela.text.foo, in offset order
FooRelas(c) ==
    LET ks == SetToSeq({k \in c.relas : SymIndexByKey(c, RelaChoice(k).target) >= 0})
    IN  [i \in 1..Len(ks) |->
            [r_offset |-> 4 * ks[i],
             r_info |-> GELF_R_INFO(SymIndexByKey(c, RelaChoice(ks[i]).target),
                                    RelaChoice(ks[i]).type),
             r_addend |-> RelaChoice(ks[i]).addend + c.addendDelta]]

\* .rela.text.foo exists when foo has a relocation
HasFooRelas(c) == FooRelas(c) # <<>>

SecNames(c) ==
    <<N_text_foo>>
    \o (IF HasFooRelas(c) THEN <<N_rela \o N_text_foo>> ELSE <<>>)
    \o (IF c.bar THEN <<N_text_bar, N_rela \o N_text_bar>> ELSE <<>>)
    \o <<N_data_x, N_rodata_str, N_rodata, N_rela \o N_rodata,
         N_shstrtab, N_symtab, N_strtab>>

MkSections(c) ==
    LET names == SecNames(c)
        Idx(n) == SecIndexByName(names, n)
        Sec(name, type, flags, align, entsize, size, link, info, buf) ==
            [name |-> name, sh_type |-> type, sh_flags |-> flags, sh_addr |-> 0,
             sh_addralign |-> align, sh_entsize |-> entsize, sh_size |-> size,
             sh_link |-> link, sh_info |-> info, d_buf |-> buf, d_size |-> size]
        Content(name, flags, align, buf) ==
            Sec(name, SHT_PROGBITS, flags, align, 0, Len(buf), 0, 0, buf)
        Rela(base, relas) ==
            Sec(N_rela \o base, SHT_RELA, 64, 8, 24, 24 * Len(relas),
                Idx(N_symtab), Idx(base), relas)
        barRelas == <<[r_offset |-> 4,
                       r_info |-> GELF_R_INFO(SymIndexByKey(c, N_foo), 4),
                       r_addend |-> -4]>>
        tblRelas == <<[r_offset |-> 0,
                       r_info |-> GELF_R_INFO(SymIndexByKey(c, N_text_foo), 1),
                       r_addend |-> 8]>>
    IN  <<Content(N_text_foo, 6, c.fooAlign, <<c.fooBody>>)>>
        \o (IF HasFooRelas(c) THEN <<Rela(N_text_foo, FooRelas(c))>> ELSE <<>>)
        \o (IF c.bar
            THEN <<Content(N_text_bar, 6, 16, <<c.barBody>>), Rela(N_text_bar, barRelas)>>
            ELSE <<>>)
        \o <<Content(N_data_x, 3, 4, <<c.xBody>>),
             Content(N_rodata_str, 50, 1, StrData(c.strData)),
             Content(N_rodata, 2, 8, <<c.tblBody>>),
             Rela(N_rodata, tblRelas),
             Sec(N_shstrtab, SHT_STRTAB, 0, 1, 0, 0, 0, 0, <<>>),
             Sec(N_symtab, SHT_SYMTAB, 0, 8, 24, 24 * Len(SymDescs(c)),
                 Idx(N_strtab), 0, <<>>),
             Sec(N_strtab, SHT_STRTAB, 0, 1, 0, 0, 0, 0, <<>>)>>

MkSymbols(c) ==
    LET ds == SymDescs(c)
        names == SecNames(c)
    IN  [i \in 1..Len(ds) |->
            [name |-> ds[i].name,
             st_info |-> GELF_ST_INFO(ds[i].bind, ds[i].type),
             st_other |-> 0,
             st_shndx |-> IF ds[i].sec # <<>> THEN SecIndexByName(names, ds[i].sec)
                          ELSE ds[i].shndx,
             st_value |-> ds[i].value,
             st_size |-> ds[i].size]]

\* e_ident: magic, class, data encoding, version, OS ABI, ABI version, padding
MkIdent(h) ==
    <<127, 69, 76, 70, h.class, h.data, EV_CURRENT, h.osabi, h.abiversion,
      0, 0, 0, 0, 0, 0, 0>>

MkEhdr(h) ==
    [e_ident |-> MkIdent(h), e_type |-> h.type, e_machine |-> h.machine,
     e_version |-> h.version, e_entry |-> h.entry, e_phoff |-> h.phoff,
     e_flags |-> h.flags, e_ehsize |-> h.ehsize, e_phentsize |-> h.phentsize,
     e_shentsize |-> h.shentsize]

RECURSIVE StrTabSize(_, _)
\* bytes taken by the first n strings of a string table, after its initial NUL
StrTabSize(strs, n) ==
    IF n = 0 THEN 1 ELSE StrTabSize(strs, n - 1) + strlen(strs[n]) + 1

RECURSIVE StrTab(_, _)
\* the string table that holds the first n strings after its initial NUL
StrTab(strs, n) ==
    IF n = 0 THEN <<NUL>> ELSE StrTab(strs, n - 1) \o strs[n] \o <<NUL>>

Without(rec, field) == [f \in DOMAIN rec \ {field} |-> rec[f]]

\* the names the symbol records carry: none for symbol 0 and section symbols
SymNames(c) ==
    [i \in 1..Len(SymDescs(c)) |-> IF i = 1 THEN <<>> ELSE SymDescs(c)[i].name]

\* the symbol records of .symtab, each with the offset of its name in .strtab
SymRecords(syms, symnames) ==
    [i \in 1..Len(syms) |->
        [st_name |-> IF symnames[i] = <<>> THEN 0 ELSE StrTabSize(symnames, i - 1)]
        @@ Without(syms[i], "name")]

\* the object file: .symtab holds the symbol records, .shstrtab and .strtab
\* hold the names, and the section headers give the offsets of theirs
FileOf(hdr, secs, secnames, shstrtab, strtab, symtab) ==
    [ehdr |-> MkEhdr(hdr), phnum |-> hdr.phnum,
     shstrndx |-> SecIndexByName(secnames, N_shstrtab),
     sections |->
        [i \in 1..Len(secs) |->
            [sh_name |-> StrTabSize(secnames, i - 1)]
            @@ [Without(secs[i], "name") EXCEPT
                  !.d_buf = CASE secs[i].name = N_shstrtab -> shstrtab
                              [] secs[i].name = N_strtab -> strtab
                              [] secs[i].name = N_symtab -> symtab
                              [] OTHER -> @,
                  !.d_size = CASE secs[i].name = N_shstrtab -> Len(shstrtab)
                               [] secs[i].name = N_strtab -> Len(strtab)
                               [] OTHER -> @,
                  !.sh_size = CASE secs[i].name = N_shstrtab -> Len(shstrtab)
                                [] secs[i].name = N_strtab -> Len(strtab)
                                [] OTHER -> @]]]

\* the object file of configuration c (each table is built once and bound)
MkFile(c) ==
    CHOOSE file \in
        {FileOf(c.hdr, secs, secnames, StrTab(secnames, Len(secnames)),
                StrTab(symnames, Len(symnames)), SymRecords(syms, symnames)) :
            secs \in {MkSections(c)}, syms \in {MkSymbols(c)},
            secnames \in {SecNames(c)}, symnames \in {SymNames(c)}} : TRUE

(***************************************************************************)
(* Helper functions.                                                       *)
(***************************************************************************)
MinOf(S) == CHOOSE x \in S : \A y \in S : x <= y
MaxOf(S) == CHOOSE x \in S : \A y \in S : x >= y

is_rela_section(sec) == sec.sh.sh_type = SHT_RELA

find_section_by_index(table, index) ==
    LET hits == {i \in 1..Len(table) : table[i].index = index}
    IN  IF hits = {} THEN NULL ELSE MinOf(hits)

find_section_by_name(table, name) ==
    LET hits == {i \in 1..Len(table) : table[i].name = name}
    IN  IF hits = {} THEN NULL ELSE MinOf(hits)

find_symbol_by_index(table, index) ==
    LET hits == {i \in 1..Len(table) : table[i].index = index}
    IN  IF hits = {} THEN NULL ELSE MinOf(hits)

HasFlag(flags, bit) == (flags \div bit) % 2 = 1

(***************************************************************************)
(* The loader: kpatch_elf_open and the three table builders.               *)
(***************************************************************************)
\* the string at offset of the string table in section index; NULLSTR when
\* there is no such section or no string at that offset
elf_strptr(file, index, offset) ==
    IF index \in 1..Len(file.sections)
       /\ file.sections[index].sh_type = SHT_STRTAB
       /\ HasCStr(file.sections[index].d_buf, offset)
    THEN CStr(file.sections[index].d_buf, offset)
    ELSE NULLSTR

\* struct section as kpatch_create_section_table leaves it (the rest zeroed)
kpatch_create_section_table(file) ==
    [i \in 1..Len(file.sections) |->
        LET f == file.sections[i]
        IN  [twin |-> NULL, twino |-> NULL,
             sh |-> [sh_name |-> f.sh_name, sh_type |-> f.sh_type,
                     sh_flags |-> f.sh_flags, sh_addr |-> f.sh_addr,
                     sh_addralign |-> f.sh_addralign, sh_entsize |-> f.sh_entsize,
                     sh_size |-> f.sh_size, sh_link |-> f.sh_link,
                     sh_info |-> f.sh_info],
             data |-> [d_buf |-> f.d_buf, d_size |-> f.d_size],
             name |-> elf_strptr(file, file.shstrndx, f.sh_name),
             index |-> i, status |-> STATUS_NEW, include |-> 0,
             base |-> NULL, relas |-> <<>>,
             rela |-> NULL, secsym |-> NULL, sym |-> NULL]]

\* whether a symbol record is bound to a real section
SymHasSection(st_shndx) == st_shndx > SHN_UNDEF /\ st_shndx < SHN_LORESERVE

symbols_nr(sections) ==
    LET symtab == sections[find_section_by_name(sections, N_symtab)]
    IN  symtab.sh.sh_size \div symtab.sh.sh_entsize

\* the symbol table alone: symbol 0 stays zeroed
kpatch_create_symbol_table_syms(file, sections) ==
    [p \in 1..symbols_nr(sections) |->
        LET symtab == sections[find_section_by_name(sections, N_symtab)]
            f == symtab.data.d_buf[p]
            sec == IF SymHasSection(f.st_shndx)
                   THEN find_section_by_index(sections, f.st_shndx) ELSE NULL
            type == GELF_ST_TYPE(f.st_info)
        IN  IF p = 1
            THEN [twin |-> NULL, twino |-> NULL, sec |-> NULL,
                  sym |-> [st_name |-> 0, st_info |-> 0, st_other |-> 0,
                           st_shndx |-> 0, st_value |-> 0, st_size |-> 0],
                  name |-> NULLSTR, index |-> 0, bind |-> 0, type |-> 0,
                  status |-> STATUS_NEW, include |-> 0]
            ELSE [twin |-> NULL, twino |-> NULL, sec |-> sec,
                  sym |-> [st_name |-> f.st_name, st_info |-> f.st_info,
                           st_other |-> f.st_other, st_shndx |-> f.st_shndx,
                           st_value |-> f.st_value, st_size |-> f.st_size],
                  name |-> IF sec # NULL /\ type = STT_SECTION
                           THEN sections[sec].name
                           ELSE elf_strptr(file, symtab.sh.sh_link, f.st_name),
                  index |-> p - 1, bind |-> GELF_ST_BIND(f.st_info), type |-> type,
                  status |-> STATUS_NEW, include |-> 0]]

\* a FUNC or OBJECT symbol outside __ksymtab_strings: its section's entity symbol
IsEntitySym(sections, s) ==
    /\ s.sec # NULL
    /\ s.type \in {STT_FUNC, STT_OBJECT}
    /\ sections[s.sec].name # N_ksymtab_strings

\* the sections with sec->sym and sec->secsym set: the last symbol wins
kpatch_create_symbol_table_secs(sections, symbols) ==
    [i \in 1..Len(sections) |->
        LET ents == {p \in 2..Len(symbols) :
                        symbols[p].sec = i /\ IsEntitySym(sections, symbols[p])}
            secs == {p \in 2..Len(symbols) :
                        symbols[p].sec = i /\ symbols[p].type = STT_SECTION}
        IN  [sections[i] EXCEPT
                !.sym = IF ents = {} THEN NULL ELSE MaxOf(ents),
                !.secsym = IF secs = {} THEN NULL ELSE MaxOf(secs)]]

\* ERROR() in kpatch_create_symbol_table
SymbolTableError(file, sections) ==
    \/ find_section_by_name(sections, N_symtab) = NULL
    \/ \E p \in 2..symbols_nr(sections) :
          LET f == sections[find_section_by_name(sections, N_symtab)].data.d_buf[p]
              sec == find_section_by_index(sections, f.st_shndx)
          IN  \/ elf_strptr(file, sections[find_section_by_name(sections, N_symtab)]
                                      .sh.sh_link, f.st_name) = NULLSTR
              \/ /\ SymHasSection(f.st_shndx)
                 /\ \/ sec = NULL
                    \/ /\ GELF_ST_TYPE(f.st_info) \in {STT_FUNC, STT_OBJECT}
                       /\ sections[sec].name # N_ksymtab_strings
                       /\ f.st_value # 0

\* struct rela of entry r of a relocation section
kpatch_create_rela_entry(sections, symbols, r) ==
    LET sym == find_symbol_by_index(symbols, GELF_R_SYM(r.r_info))
        tsec == IF sym = NULL THEN NULL ELSE symbols[sym].sec
    IN  [twin |-> NULL,
         rela |-> [r_offset |-> r.r_offset, r_info |-> r.r_info,
                   r_addend |-> r.r_addend],
         sym |-> sym,
         type |-> GELF_R_TYPE(r.r_info),
         addend |-> r.r_addend,
         offset |-> r.r_offset,
         string |-> IF tsec # NULL /\ HasFlag(sections[tsec].sh.sh_flags, SHF_STRINGS)
                    THEN CStr(sections[tsec].data.d_buf, r.r_addend)
                    ELSE NULLSTR,
         status |-> STATUS_NEW]

\* the base section of a relocation section: the one named name + 5
RelaBase(sections, sec) ==
    find_section_by_name(sections, SubSeq(sec.name, 6, Len(sec.name)))

\* the sections after kpatch_create_rela_table ran on every relocation section
kpatch_create_rela_table(sections, symbols) ==
    [i \in 1..Len(sections) |->
        LET sec == sections[i]
            relasecs == {j \in 1..Len(sections) :
                            /\ is_rela_section(sections[j])
                            /\ RelaBase(sections, sections[j]) = i}
            rela_nr == sec.sh.sh_size \div sec.sh.sh_entsize
        IN  IF is_rela_section(sec)
            THEN [sec EXCEPT
                    !.base = RelaBase(sections, sec),
                    !.relas = [k \in 1..rela_nr |->
                                  kpatch_create_rela_entry(sections, symbols,
                                                           sec.data.d_buf[k])]]
            ELSE [sec EXCEPT
                    !.rela = IF relasecs = {} THEN NULL ELSE MaxOf(relasecs)]]

\* ERROR() in kpatch_create_rela_table
RelaTableError(sections, symbols) ==
    \E i \in 1..Len(sections) :
        /\ is_rela_section(sections[i])
        /\ \/ RelaBase(sections, sections[i]) = NULL
           \/ \E k \in 1..Len(sections[i].data.d_buf) :
                 find_symbol_by_index(symbols,
                     GELF_R_SYM(sections[i].data.d_buf[k].r_info)) = NULL

\* whether kpatch_elf_open(file) ends in ERROR (exit status 1)
ElfOpenError(file) ==
    LET sections == kpatch_create_section_table(file)
    IN  \/ \E i \in 1..Len(sections) : sections[i].name = NULLSTR
        \/ SymbolTableError(file, sections)
        \/ RelaTableError(sections,
                          kpatch_create_symbol_table_syms(file, sections))

\* the graph kpatch_elf_open(file) returns; elf is the libelf handle
kpatch_elf_open(file) ==
    LET sections == kpatch_create_section_table(file)
        symbols == kpatch_create_symbol_table_syms(file, sections)
    IN  [elf |-> [open |-> TRUE, ehdr |-> file.ehdr, phnum |-> file.phnum],
         sections |-> kpatch_create_rela_table(
                          kpatch_create_symbol_table_secs(sections, symbols), symbols),
         symbols |-> symbols]

(***************************************************************************)
(* The pairs of input objects of the model.                                *)
(***************************************************************************)
DefaultHdr ==
    [class |-> ELFCLASS64, data |-> 1, osabi |-> 0, abiversion |-> 0, type |-> 1,
     machine |-> 62, version |-> EV_CURRENT, entry |-> 0, phoff |-> 0, flags |-> 0,
     ehsize |-> 64, phentsize |-> 0, shentsize |-> 64, phnum |-> 0]

DefaultCfg ==
    [relas |-> {}, bar |-> FALSE, hasL |-> TRUE, secL |-> N_data_x, cmn |-> FALSE,
     fooBody |-> 1, barBody |-> 1, xBody |-> 1, tblBody |-> 1, strData |-> 1,
     xSize |-> 4, fooAlign |-> 16, fooBind |-> STB_GLOBAL, fooValue |-> 0,
     addendDelta |-> 0, hdr |-> DefaultHdr]

RelaSets == {r \in SUBSET RelaChoices : Cardinality(r) <= MaxRelas}

\* the patched objects: any references of foo, with or without bar
PatchedCfgs ==
    {[DefaultCfg EXCEPT !.relas = r, !.bar = b] : r \in RelaSets, b \in BOOLEAN}
    \cup {[DefaultCfg EXCEPT !.relas = r, !.cmn = TRUE] : r \in {{}, {1}}}
    \cup {[DefaultCfg EXCEPT !.relas = {1}, !.fooValue = 8]}
    \cup {[DefaultCfg EXCEPT !.relas = {5}, !.hasL = FALSE]}

\* base objects that differ from p in the references foo makes
RelaVariants(p) ==
    {[p EXCEPT !.relas = r] :
        r \in {p.relas \ {k} : k \in p.relas}
              \cup {p.relas \cup {k} : k \in RelaChoices \ p.relas}
              \cup {{}}}

\* base objects that differ from p in one other respect
ScalarVariants(p) ==
    {[p EXCEPT !.fooBody = 2], [p EXCEPT !.barBody = 2], [p EXCEPT !.xBody = 2],
     [p EXCEPT !.tblBody = 2], [p EXCEPT !.strData = 2], [p EXCEPT !.xSize = 8],
     [p EXCEPT !.fooAlign = 1], [p EXCEPT !.fooBind = STB_LOCAL],
     [p EXCEPT !.fooValue = 8], [p EXCEPT !.bar = ~p.bar],
     [p EXCEPT !.hasL = ~p.hasL], [p EXCEPT !.secL = N_rodata],
     [p EXCEPT !.addendDelta = 3]}

BaseCfgs(p) ==
    {p} \cup ScalarVariants(p) \cup RelaVariants(p)
    \cup (IF p.relas = {} THEN {[v EXCEPT !.xSize = 8] : v \in RelaVariants(p)}
          ELSE {})

\* pairs of one translation unit whose ELF headers vary
HdrVariants(h) ==
    {h, [h EXCEPT !.machine = 3], [h EXCEPT !.flags = 1], [h EXCEPT !.type = 2],
     [h EXCEPT !.version = 0], [h EXCEPT !.entry = 1], [h EXCEPT !.phoff = 64],
     [h EXCEPT !.ehsize = 52], [h EXCEPT !.phentsize = 56],
     [h EXCEPT !.shentsize = 40], [h EXCEPT !.osabi = 3 - h.osabi],
     [h EXCEPT !.phnum = 1]}

HdrPairs ==
    LET g == [DefaultCfg EXCEPT !.relas = {1}]
        hps == {[DefaultHdr EXCEPT !.osabi = o, !.abiversion = a] :
                   o \in {0, 3}, a \in {0, 1}}
        hdrs == UNION {{<<hb, hp>> : hb \in HdrVariants(hp)} : hp \in hps}
                \cup {<<hp, [hp EXCEPT !.phnum = 1]>> : hp \in hps}
    IN  {<<[gb EXCEPT !.hdr = hh[1]], [g EXCEPT !.hdr = hh[2]]>> :
            gb \in {[g EXCEPT !.fooBody = 2], [g EXCEPT !.fooValue = 8]},
            hh \in hdrs}

\* <<configuration of the base object, configuration of the patched object>>
InputPairs ==
    UNION {{<<b, p>> : b \in BaseCfgs(p)} : p \in PatchedCfgs} \cup HdrPairs

(***************************************************************************)
(* The state of one run of main().                                         *)
(***************************************************************************)
VARIABLES
    pc,           \* the stage of main() that runs next; "exit" or "fault" at the end
    exit_status,  \* the status the process exited with, -1 while it has none
    file_base,    \* arguments.args[0]: the base object
    file_patched, \* arguments.args[1]: the patched object
    kelf_base,    \* struct kpatch_elf *kelf_base
    kelf_patched, \* struct kpatch_elf *kelf_patched
    kelf_out,     \* struct kpatch_elf *kelf_out
    walk,         \* kpatch_include_changed_functions: loop index and call stack
    stdout,       \* what the run printed at log level NORMAL
    elfout        \* the header of the object written to arguments.args[2]

vars == <<pc, exit_status, file_base, file_patched, kelf_base, kelf_patched,
          kelf_out, walk, stdout, elfout>>

NoEhdr == [e_ident |-> <<>>]
NoElf == [open |-> FALSE, ehdr |-> NoEhdr, phnum |-> 0]
\* a struct kpatch_elf after memset(0)
NoKelf == [elf |-> NoElf, sections |-> <<>>, symbols |-> <<>>]
NoWalk == [i |-> 0, stack |-> <<>>, entered |-> <<>>]

Init ==
    /\ \E pair \in InputPairs :
          /\ file_base = MkFile(pair[1])
          /\ file_patched = MkFile(pair[2])
    /\ pc = "open_base"
    /\ exit_status = -1
    /\ kelf_base = NoKelf
    /\ kelf_patched = NoKelf
    /\ kelf_out = NoKelf
    /\ walk = NoWalk
    /\ stdout = <<>>
    /\ elfout = NoEhdr

\* error(status, ...): the process exits; nothing else changes
Exit(status) ==
    /\ pc' = "exit"
    /\ exit_status' = status

\* a read through a NULL pointer: the process is killed by SIGSEGV
Fault ==
    /\ pc' = "fault"
    /\ exit_status' = exit_status

(***************************************************************************)
(* main(): kpatch_elf_open of both objects, then the header checks.        *)
(***************************************************************************)
ElfOpenBase ==
    /\ pc = "open_base"
    /\ IF ElfOpenError(file_base)
       THEN Exit(1) /\ UNCHANGED kelf_base
       ELSE /\ kelf_base' = kpatch_elf_open(file_base)
            /\ pc' = "open_patched"
            /\ UNCHANGED exit_status
    /\ UNCHANGED <<file_base, file_patched, kelf_patched, kelf_out, walk, stdout,
                   elfout>>

ElfOpenPatched ==
    /\ pc = "open_patched"
    /\ IF ElfOpenError(file_patched)
       THEN Exit(1) /\ UNCHANGED kelf_patched
       ELSE /\ kelf_patched' = kpatch_elf_open(file_patched)
            /\ pc' = "compare_elf_headers"
            /\ UNCHANGED exit_status
    /\ UNCHANGED <<file_base, file_patched, kelf_base, kelf_out, walk, stdout,
                   elfout>>

\* a comparison that leaves out e_flags
ElfHeadersDifferButFlags(eh1, eh2) ==
    \/ eh1.e_ident # eh2.e_ident
    \/ eh1.e_type # eh2.e_type
    \/ eh1.e_machine # eh2.e_machine
    \/ eh1.e_version # eh2.e_version
    \/ eh1.e_entry # eh2.e_entry
    \/ eh1.e_phoff # eh2.e_phoff
    \/ eh1.e_ehsize # eh2.e_ehsize
    \/ eh1.e_phentsize # eh2.e_phentsize
    \/ eh1.e_shentsize # eh2.e_shentsize

\* the condition of DIFF_FATAL("ELF headers differ")
ElfHeadersDiffer(eh1, eh2) ==
    \/ eh1.e_ident # eh2.e_ident
    \/ eh1.e_type # eh2.e_type
    \/ eh1.e_machine # eh2.e_machine
    \/ eh1.e_version # eh2.e_version
    \/ eh1.e_entry # eh2.e_entry
    \/ eh1.e_phoff # eh2.e_phoff
    \/ eh1.e_flags # eh2.e_flags
    \/ eh1.e_ehsize # eh2.e_ehsize
    \/ eh1.e_phentsize # eh2.e_phentsize
    \/ eh1.e_shentsize # eh2.e_shentsize

kpatch_compare_elf_headers ==
    /\ pc = "compare_elf_headers"
    /\ IF ElfHeadersDiffer(kelf_base.elf.ehdr, kelf_patched.elf.ehdr)
       THEN /\ Exit(2)
            /\ stdout' = Append(stdout, <<"ELF headers differ">>)
       ELSE /\ pc' = "check_program_headers_base"
            /\ UNCHANGED <<exit_status, stdout>>
    /\ UNCHANGED <<file_base, file_patched, kelf_base, kelf_patched, kelf_out, walk,
                   elfout>>

\* called on the base object, then on the patched object
kpatch_check_program_headers ==
    /\ pc \in {"check_program_headers_base", "check_program_headers_patched"}
    /\ LET elf == IF pc = "check_program_headers_base"
                  THEN kelf_base.elf ELSE kelf_patched.elf
       IN  IF elf.phnum # 0
           THEN /\ Exit(2)
                /\ stdout' = Append(stdout, <<"ELF contains program header">>)
           ELSE /\ pc' = IF pc = "check_program_headers_base"
                         THEN "check_program_headers_patched"
                         ELSE "correlate_sections"
                /\ UNCHANGED <<exit_status, stdout>>
    /\ UNCHANGED <<file_base, file_patched, kelf_base, kelf_patched, kelf_out, walk,
                   elfout>>

(***************************************************************************)
(* The correlator.                                                         *)
(***************************************************************************)
\* whether the double loop pairs entry i of table1 with entry j of table2:
\* j is the first entry of the same name (from is 1 for sections, 2 for
\* symbols: symbol 0 is skipped)
PairedByName(table1, table2, i, j, from) ==
    /\ table1[i].name = table2[j].name
    /\ \A k \in from..(j - 1) : table2[k].name # table1[i].name

\* table1 after the double loop: twin and the initial status
CorrelateSide1(table1, table2, from) ==
    [i \in 1..Len(table1) |->
        LET js == {j \in from..Len(table2) : PairedByName(table1, table2, i, j, from)}
        IN  IF i >= from /\ js # {}
            THEN [table1[i] EXCEPT !.twin = MinOf(js), !.status = SAME]
            ELSE table1[i]]

\* table2 after the double loop: the last entry of table1 paired with j wins
CorrelateSide2(table1, table2, from) ==
    [j \in 1..Len(table2) |->
        LET is == {i \in from..Len(table1) : PairedByName(table1, table2, i, j, from)}
        IN  IF j >= from /\ is # {}
            THEN [table2[j] EXCEPT !.twin = MaxOf(is), !.status = SAME]
            ELSE table2[j]]

kpatch_correlate_sections(kelf1, kelf2) ==
    <<[kelf1 EXCEPT !.sections = CorrelateSide1(kelf1.sections, kelf2.sections, 1)],
      [kelf2 EXCEPT !.sections = CorrelateSide2(kelf1.sections, kelf2.sections, 1)]>>

kpatch_correlate_symbols(kelf1, kelf2) ==
    <<[kelf1 EXCEPT !.symbols = CorrelateSide1(kelf1.symbols, kelf2.symbols, 2)],
      [kelf2 EXCEPT !.symbols = CorrelateSide2(kelf1.symbols, kelf2.symbols, 2)]>>

\* rela1 belongs to the graph with symbols syms1, rela2 to the one with syms2
rela_equal(rela1, syms1, rela2, syms2) ==
    IF rela1.type # rela2.type \/ rela1.offset # rela2.offset THEN FALSE
    ELSE IF rela1.string # NULLSTR
         THEN rela2.string # NULLSTR /\ rela1.string = rela2.string
         ELSE /\ syms1[rela1.sym].name = syms2[rela2.sym].name
              /\ rela1.addend = rela2.addend

\* whether kpatch_correlate_relas pairs entry a of relas1 with entry b of
\* relas2: b is the first entry equal to a
PairedRelas(relas1, syms1, relas2, syms2, a, b) ==
    /\ rela_equal(relas1[a], syms1, relas2[b], syms2)
    /\ \A k \in 1..(b - 1) : ~rela_equal(relas1[a], syms1, relas2[k], syms2)

\* relas1 of a section of kelf1 after kpatch_correlate_relas
CorrelateRelas1(relas1, syms1, relas2, syms2) ==
    [a \in 1..Len(relas1) |->
        LET bs == {b \in 1..Len(relas2) :
                      PairedRelas(relas1, syms1, relas2, syms2, a, b)}
        IN  IF bs = {} THEN relas1[a]
            ELSE [relas1[a] EXCEPT !.twin = MinOf(bs), !.status = SAME]]

\* relas2 of its twin after kpatch_correlate_relas
CorrelateRelas2(relas1, syms1, relas2, syms2) ==
    [b \in 1..Len(relas2) |->
        LET as == {a \in 1..Len(relas1) :
                      PairedRelas(relas1, syms1, relas2, syms2, a, b)}
        IN  IF as = {} THEN relas2[b]
            ELSE [relas2[b] EXCEPT !.twin = MaxOf(as), !.status = SAME]]

\* the first relocation section of kelf1 that has no twin: kpatch_correlate_relas
\* reads sec->twin->relas of it (0 when every one has a twin)
FirstUntwinnedRelaSection(kelf1) ==
    LET bad == {i \in 1..Len(kelf1.sections) :
                   is_rela_section(kelf1.sections[i]) /\ kelf1.sections[i].twin = NULL}
    IN  IF bad = {} THEN NULL ELSE MinOf(bad)

\* kpatch_correlate_relas(sec) on the relocation sections of kelf1 below
\* position n, each of which has a twin: <<kelf1, kelf2>> afterwards
kpatch_correlate_relas(kelf1, kelf2, n) ==
    LET Done1(i) == i < n /\ is_rela_section(kelf1.sections[i])
    IN  <<[kelf1 EXCEPT !.sections =
              [i \in 1..Len(kelf1.sections) |->
                  IF ~Done1(i) THEN kelf1.sections[i]
                  ELSE [kelf1.sections[i] EXCEPT !.relas =
                          CorrelateRelas1(kelf1.sections[i].relas, kelf1.symbols,
                              kelf2.sections[kelf1.sections[i].twin].relas,
                              kelf2.symbols)]]],
          [kelf2 EXCEPT !.sections =
              [j \in 1..Len(kelf2.sections) |->
                  LET is == {i \in 1..Len(kelf1.sections) :
                                Done1(i) /\ kelf1.sections[i].twin = j}
                  IN  IF is = {} THEN kelf2.sections[j]
                      ELSE [kelf2.sections[j] EXCEPT !.relas =
                              CorrelateRelas2(kelf1.sections[MaxOf(is)].relas,
                                  kelf1.symbols, kelf2.sections[j].relas,
                                  kelf2.symbols)]]]>>

\* kpatch_correlate_elfs, first call
CorrelateSections ==
    /\ pc = "correlate_sections"
    /\ kelf_base' = kpatch_correlate_sections(kelf_base, kelf_patched)[1]
    /\ kelf_patched' = kpatch_correlate_sections(kelf_base, kelf_patched)[2]
    /\ pc' = "correlate_symbols"
    /\ UNCHANGED <<exit_status, file_base, file_patched, kelf_out, walk, stdout,
                   elfout>>

\* kpatch_correlate_elfs, second call
CorrelateSymbols ==
    /\ pc = "correlate_symbols"
    /\ kelf_base' = kpatch_correlate_symbols(kelf_base, kelf_patched)[1]
    /\ kelf_patched' = kpatch_correlate_symbols(kelf_base, kelf_patched)[2]
    /\ pc' = "correlate_relas"
    /\ UNCHANGED <<exit_status, file_base, file_patched, kelf_out, walk, stdout,
                   elfout>>

\* kpatch_correlate_elfs, the loop over the relocation sections of kelf1
CorrelateRelas ==
    /\ pc = "correlate_relas"
    /\ LET bad == FirstUntwinnedRelaSection(kelf_base)
           n == IF bad = NULL THEN Len(kelf_base.sections) + 1 ELSE bad
       IN  /\ kelf_base' = kpatch_correlate_relas(kelf_base, kelf_patched, n)[1]
           /\ kelf_patched' = kpatch_correlate_relas(kelf_base, kelf_patched, n)[2]
           /\ IF bad # NULL
              THEN Fault
              ELSE pc' = "compare_nonrela_sections" /\ UNCHANGED exit_status
    /\ UNCHANGED <<file_base, file_patched, kelf_out, walk, stdout, elfout>>

(***************************************************************************)
(* The comparator: kpatch_compare_correlated_elements, pass by pass.       *)
(***************************************************************************)
\* DIFF_FATAL("%s section header details differ"): sh_link is compared
\* with itself
SectionHeadersDiffer(sec1, sec2) ==
    \/ sec1.sh.sh_type # sec2.sh.sh_type
    \/ sec1.sh.sh_flags # sec2.sh.sh_flags
    \/ sec1.sh.sh_addr # sec2.sh.sh_addr
    \/ sec1.sh.sh_addralign # sec2.sh.sh_addralign
    \/ sec1.sh.sh_entsize # sec2.sh.sh_entsize
    \/ sec1.sh.sh_link # sec1.sh.sh_link

\* the status kpatch_compare_correlated_nonrela_section gives sec1
kpatch_compare_correlated_nonrela_section(sec1, sec2) ==
    IF \/ sec1.sh.sh_size # sec2.sh.sh_size
       \/ sec1.data.d_size # sec2.data.d_size
       \/ (sec1.sh.sh_type # SHT_NOBITS /\ sec1.data.d_buf # sec2.data.d_buf)
    THEN CHANGED ELSE SAME

NonrelaStatus(kelf, twins, i) ==
    IF kelf.sections[i].twin # NULL
    THEN kpatch_compare_correlated_nonrela_section(
             kelf.sections[i], twins.sections[kelf.sections[i].twin])
    ELSE STATUS_NEW

\* the first content section whose twin's header differs (0 when none does)
FirstDifferingSection(kelf, twins) ==
    LET bad == {i \in 1..Len(kelf.sections) :
                   /\ ~is_rela_section(kelf.sections[i])
                   /\ kelf.sections[i].twin # NULL
                   /\ SectionHeadersDiffer(kelf.sections[i],
                                           twins.sections[kelf.sections[i].twin])}
    IN  IF bad = {} THEN NULL ELSE MinOf(bad)

\* the graph after the loop ran over the content sections below n
kpatch_compare_correlated_nonrela_sections(kelf, twins, n) ==
    LET Seen(i) == i >= 1 /\ i < n /\ ~is_rela_section(kelf.sections[i])
        secs == [j \in 1..Len(kelf.sections) |->
                    LET bases == {i \in 1..Len(kelf.sections) :
                                     Seen(i) /\ kelf.sections[i].rela = j}
                    IN  IF Seen(j)
                        THEN [kelf.sections[j] EXCEPT
                                !.status = NonrelaStatus(kelf, twins, j)]
                        ELSE IF bases # {}
                        THEN [kelf.sections[j] EXCEPT
                                !.status = NonrelaStatus(kelf, twins, MaxOf(bases))]
                        ELSE kelf.sections[j]]
        syms == [p \in 1..Len(kelf.symbols) |->
                    LET owners == {i \in 1..Len(kelf.sections) :
                                      /\ Seen(i)
                                      /\ \/ kelf.sections[i].sym = p
                                         \/ kelf.sections[i].secsym = p}
                    IN  IF owners = {} THEN kelf.symbols[p]
                        ELSE [kelf.symbols[p] EXCEPT
                                !.status = NonrelaStatus(kelf, twins, MaxOf(owners))]]
    IN  [kelf EXCEPT !.sections = secs, !.symbols = syms]

CompareNonrelaSections ==
    /\ pc = "compare_nonrela_sections"
    /\ LET bad == FirstDifferingSection(kelf_patched, kelf_base)
       IN  IF bad # NULL
           THEN /\ kelf_patched' = kpatch_compare_correlated_nonrela_sections(
                                       kelf_patched, kelf_base, bad)
                /\ stdout' = Append(stdout, <<"section header details differ",
                                              kelf_patched.sections[bad].name>>)
                /\ Exit(2)
           ELSE /\ kelf_patched' = kpatch_compare_correlated_nonrela_sections(
                                       kelf_patched, kelf_base,
                                       Len(kelf_patched.sections) + 1)
                /\ pc' = "compare_symbols"
                /\ UNCHANGED <<exit_status, stdout>>
    /\ UNCHANGED <<file_base, file_patched, kelf_base, kelf_out, walk, elfout>>

\* DIFF_FATAL("symbol info mismatch: %s")
SymbolInfoMismatch(kelf, twins, sym1, sym2) ==
    \/ sym1.sym.st_info # sym2.sym.st_info
    \/ sym1.sym.st_other # sym2.sym.st_other
    \/ (sym1.sec # NULL /\ sym2.sec # NULL
        /\ kelf.sections[sym1.sec].twin # sym2.sec)
    \/ (sym1.sec # NULL /\ sym2.sec = NULL)
    \/ (sym2.sec # NULL /\ sym1.sec = NULL)

\* DIFF_FATAL("object size mismatch: %s")
ObjectSizeMismatch(sym1, sym2) ==
    sym1.type = STT_OBJECT /\ sym1.sym.st_size # sym2.sym.st_size

\* the first twinned symbol that kpatch_compare_correlated_symbol rejects
FirstDifferingSymbol(kelf, twins) ==
    LET bad == {p \in 2..Len(kelf.symbols) :
                   /\ kelf.symbols[p].twin # NULL
                   /\ \/ SymbolInfoMismatch(kelf, twins, kelf.symbols[p],
                                            twins.symbols[kelf.symbols[p].twin])
                      \/ ObjectSizeMismatch(kelf.symbols[p],
                                            twins.symbols[kelf.symbols[p].twin])}
    IN  IF bad = {} THEN NULL ELSE MinOf(bad)

\* the symbols after the loop ran over the symbols below n
kpatch_compare_correlated_symbols(kelf, n) ==
    [kelf EXCEPT !.symbols =
        [p \in 1..Len(kelf.symbols) |->
            LET sym == kelf.symbols[p]
            IN  IF p = 1 \/ p >= n THEN sym
                ELSE IF sym.twin = NULL THEN [sym EXCEPT !.status = STATUS_NEW]
                ELSE IF sym.sym.st_shndx = SHN_UNDEF \/ sym.sym.st_shndx = SHN_ABS
                THEN [sym EXCEPT !.status = SAME]
                ELSE sym]]

CompareSymbols ==
    /\ pc = "compare_symbols"
    /\ LET bad == FirstDifferingSymbol(kelf_patched, kelf_base)
       IN  IF bad # NULL
           THEN /\ kelf_patched' = kpatch_compare_correlated_symbols(kelf_patched, bad)
                /\ stdout' = Append(stdout, <<"symbol mismatch",
                                              kelf_patched.symbols[bad].name>>)
                /\ Exit(2)
           ELSE /\ kelf_patched' = kpatch_compare_correlated_symbols(
                                       kelf_patched, Len(kelf_patched.symbols) + 1)
                /\ pc' = "set_rela_section_status"
                /\ UNCHANGED <<exit_status, stdout>>
    /\ UNCHANGED <<file_base, file_patched, kelf_base, kelf_out, walk, elfout>>

\* a relocation section that kpatch_set_rela_section_status upgrades
HasNewRela(sec) == \E k \in 1..Len(sec.relas) : sec.relas[k].status = STATUS_NEW

\* a refinement that upgrades the relocation section and leaves its base
\* section and the symbols of the base section as they were
set_rela_section_status_alone(kelf) ==
    [kelf EXCEPT !.sections =
        [i \in 1..Len(kelf.sections) |->
            IF /\ is_rela_section(kelf.sections[i])
               /\ kelf.sections[i].status = SAME
               /\ HasNewRela(kelf.sections[i])
            THEN [kelf.sections[i] EXCEPT !.status = CHANGED]
            ELSE kelf.sections[i]]]

\* kpatch_set_rela_section_status on every relocation section that is SAME
kpatch_set_rela_section_status(kelf) ==
    LET Refined(j) == /\ is_rela_section(kelf.sections[j])
                      /\ kelf.sections[j].status = SAME
        Upgraded(j) == Refined(j) /\ HasNewRela(kelf.sections[j])
        secs == [i \in 1..Len(kelf.sections) |->
                    IF Upgraded(i) THEN [kelf.sections[i] EXCEPT !.status = CHANGED]
                    ELSE IF \E j \in 1..Len(kelf.sections) :
                                Upgraded(j) /\ kelf.sections[j].base = i
                    THEN [kelf.sections[i] EXCEPT !.status = CHANGED]
                    ELSE kelf.sections[i]]
        syms == [p \in 1..Len(kelf.symbols) |->
                    IF \E j \in 1..Len(kelf.sections) :
                          /\ Upgraded(j)
                          /\ \/ (kelf.sections[kelf.sections[j].base].sym = p)
                             \/ (kelf.sections[kelf.sections[j].base].secsym = p)
                    THEN [kelf.symbols[p] EXCEPT !.status = CHANGED]
                    ELSE kelf.symbols[p]]
    IN  [kelf EXCEPT !.sections = secs, !.symbols = syms]

SetRelaSectionStatus ==
    /\ pc = "set_rela_section_status"
    /\ kelf_patched' = kpatch_set_rela_section_status(kelf_patched)
    /\ pc' = "replace_sections_syms"
    /\ UNCHANGED <<exit_status, file_base, file_patched, kelf_base, kelf_out, walk,
                   stdout, elfout>>

(***************************************************************************)
(* Section-symbol substitution.                                            *)
(***************************************************************************)
\* the symbol kpatch_replace_sections_syms leaves as the target of rela
ReplacedSym(kelf, rela) ==
    LET sym == kelf.symbols[rela.sym]
    IN  IF sym.type # STT_SECTION \/ sym.sec = NULL
           \/ kelf.sections[sym.sec].sym = NULL
        THEN rela.sym
        ELSE kelf.sections[sym.sec].sym

kpatch_replace_sections_syms(kelf) ==
    [kelf EXCEPT !.sections =
        [i \in 1..Len(kelf.sections) |->
            IF ~is_rela_section(kelf.sections[i]) THEN kelf.sections[i]
            ELSE [kelf.sections[i] EXCEPT !.relas =
                    [j \in 1..Len(kelf.sections[i].relas) |->
                        [kelf.sections[i].relas[j] EXCEPT
                            !.sym = ReplacedSym(kelf, kelf.sections[i].relas[j])]]]]]

ReplaceSectionsSyms ==
    /\ pc = "replace_sections_syms"
    /\ kelf_patched' = kpatch_replace_sections_syms(kelf_patched)
    /\ pc' = "include_changed_functions"
    /\ walk' = [i |-> 1, stack |-> <<>>,
                entered |-> [p \in 1..Len(kelf_patched.symbols) |-> 0]]
    /\ UNCHANGED <<exit_status, file_base, file_patched, kelf_base, kelf_out, stdout,
                   elfout>>

(***************************************************************************)
(* The inclusion walk.  kpatch_include_symbol is recursive: walk.stack     *)
(* holds one frame per call that is inside its loop over the relocations   *)
(* of sec->rela (sym, the relocation section, the loop index), walk.i is   *)
(* the loop index of kpatch_include_changed_functions, and walk.entered    *)
(* counts the calls of kpatch_include_symbol per symbol.                   *)
(***************************************************************************)
\* the base case of the recursion: the "goto out" before sec is looked at
IncludeStops(kelf, p) ==
    \/ kelf.symbols[p].sec = NULL
    \/ (kelf.symbols[p].type # STT_SECTION /\ kelf.symbols[p].status = SAME)

\* whether kpatch_include_symbol(p) reaches its loop over sec->rela->relas
IncludeLoops(kelf, p) ==
    /\ ~IncludeStops(kelf, p)
    /\ kelf.sections[kelf.symbols[p].sec].secsym # p
    /\ kelf.sections[kelf.symbols[p].sec].rela # NULL

\* a walk without the base case for unchanged symbols: the section of every
\* symbol it meets is included
include_symbol_nobase(kelf, p) ==
    LET sec == kelf.symbols[p].sec
    IN  [kelf EXCEPT
            !.symbols = [q \in 1..Len(kelf.symbols) |->
                            IF q = p THEN [kelf.symbols[q] EXCEPT !.include = 1]
                            ELSE kelf.symbols[q]],
            !.sections = [i \in 1..Len(kelf.sections) |->
                            IF i = sec THEN [kelf.sections[i] EXCEPT !.include = 1]
                            ELSE kelf.sections[i]]]

\* a call that leaves out sym->include = 1 for the symbol it was called on
include_symbol_unmarked(kelf, p) ==
    LET sec == kelf.symbols[p].sec
        stops == IncludeStops(kelf, p)
        own == ~stops /\ kelf.sections[sec].secsym = p
        secsym == IF stops THEN NULL ELSE kelf.sections[sec].secsym
        rela == IF stops \/ own THEN NULL ELSE kelf.sections[sec].rela
    IN  [kelf EXCEPT
            !.symbols = [q \in 1..Len(kelf.symbols) |->
                            IF ~stops /\ ~own /\ q = secsym
                            THEN [kelf.symbols[q] EXCEPT !.include = 1]
                            ELSE kelf.symbols[q]],
            !.sections = [i \in 1..Len(kelf.sections) |->
                            IF ~stops /\ (i = sec \/ i = rela)
                            THEN [kelf.sections[i] EXCEPT !.include = 1]
                            ELSE kelf.sections[i]]]

\* the include flags after kpatch_include_symbol(p) ran up to its loop
kpatch_include_symbol(kelf, p) ==
    LET sec == kelf.symbols[p].sec
        stops == IncludeStops(kelf, p)
        own == ~stops /\ kelf.sections[sec].secsym = p
        secsym == IF stops THEN NULL ELSE kelf.sections[sec].secsym
        rela == IF stops \/ own THEN NULL ELSE kelf.sections[sec].rela
    IN  [kelf EXCEPT
            !.symbols = [q \in 1..Len(kelf.symbols) |->
                            IF q = p \/ (~stops /\ ~own /\ q = secsym)
                            THEN [kelf.symbols[q] EXCEPT !.include = 1]
                            ELSE kelf.symbols[q]],
            !.sections = [i \in 1..Len(kelf.sections) |->
                            IF ~stops /\ (i = sec \/ i = rela)
                            THEN [kelf.sections[i] EXCEPT !.include = 1]
                            ELSE kelf.sections[i]]]

\* the frame of a call of kpatch_include_symbol(p) that entered its loop
Frame(kelf, p) ==
    [sym |-> p, sec |-> kelf.sections[kelf.symbols[p].sec].rela, j |-> 1]

\* the stack after the call kpatch_include_symbol(p) started
Call(kelf, stack, p) ==
    IF IncludeLoops(kelf, p) THEN Append(stack, Frame(kelf, p)) ELSE stack

\* the symbols kpatch_include_changed_functions starts a walk from
IsChangedFunction(sym) ==
    sym.status = CHANGED /\ sym.type = STT_FUNC /\ sym.include = 0

\* sym->include = 1 for the FILE symbols at positions from..to
IncludeFileSyms(kelf, from, to) ==
    [kelf EXCEPT !.symbols =
        [q \in 1..Len(kelf.symbols) |->
            IF q >= from /\ q <= to /\ kelf.symbols[q].type = STT_FILE
            THEN [kelf.symbols[q] EXCEPT !.include = 1]
            ELSE kelf.symbols[q]]]

\* the loop of kpatch_include_changed_functions, from walk.i to the next
\* changed function (whose walk starts) or to the end of the symbol table
kpatch_include_changed_functions ==
    /\ pc = "include_changed_functions"
    /\ walk.stack = <<>>
    /\ LET roots == {q \in walk.i..Len(kelf_patched.symbols) :
                        IsChangedFunction(kelf_patched.symbols[q])}
       IN  IF roots = {}
           THEN /\ kelf_patched' = IncludeFileSyms(kelf_patched, walk.i,
                                                   Len(kelf_patched.symbols))
                /\ walk' = [walk EXCEPT !.i = Len(kelf_patched.symbols) + 1]
                /\ pc' = "generate_output"
                /\ UNCHANGED stdout
           ELSE LET r == MinOf(roots)
                    k == IncludeFileSyms(kelf_patched, walk.i, r)
                IN  /\ kelf_patched' = kpatch_include_symbol(k, r)
                    /\ walk' = [i |-> r + 1,
                                stack |-> Call(k, <<>>, r),
                                entered |-> [walk.entered EXCEPT ![r] = @ + 1]]
                    /\ stdout' = Append(stdout, <<"changed function",
                                                  kelf_patched.symbols[r].name>>)
                    /\ UNCHANGED pc
    /\ UNCHANGED <<exit_status, file_base, file_patched, kelf_base, kelf_out, elfout>>

\* the innermost call of kpatch_include_symbol: its loop runs to the next
\* relocation whose target is not included yet and calls itself on it, or
\* runs out and returns
IncludeSymbol ==
    /\ pc = "include_changed_functions"
    /\ walk.stack # <<>>
    /\ LET top == walk.stack[Len(walk.stack)]
           relas == kelf_patched.sections[top.sec].relas
           todo == {j \in top.j..Len(relas) :
                       kelf_patched.symbols[relas[j].sym].include = 0}
           rest == SubSeq(walk.stack, 1, Len(walk.stack) - 1)
       IN  IF todo = {}
           THEN /\ walk' = [walk EXCEPT !.stack = rest]
                /\ UNCHANGED kelf_patched
           ELSE LET j == MinOf(todo)
                    q == relas[j].sym
                IN  /\ kelf_patched' = kpatch_include_symbol(kelf_patched, q)
                    /\ walk' = [walk EXCEPT
                                  !.stack = Call(kelf_patched,
                                                 Append(rest, [top EXCEPT !.j = j + 1]),
                                                 q),
                                  !.entered = [@ EXCEPT ![q] = @ + 1]]
    /\ UNCHANGED <<pc, exit_status, file_base, file_patched, kelf_base, kelf_out,
                   stdout, elfout>>

\* the lines kpatch_find_changed_functions would print: main() has no call
\* of it, so no step of the run prints them
kpatch_find_changed_functions(kelf) ==
    LET changed == SetToSeq({p \in 1..Len(kelf.symbols) :
                                /\ kelf.symbols[p].type = STT_FUNC
                                /\ kelf.symbols[p].status = CHANGED})
    IN  IF changed = <<>>
        THEN <<<<"no changes found">>>>
        ELSE [n \in 1..Len(changed) |->
                 <<"function has changed", kelf.symbols[changed[n]].name>>]

(***************************************************************************)
(* Output synthesis: kpatch_generate_output.                               *)
(***************************************************************************)
IsMetadataName(name) == name = N_shstrtab \/ name = N_strtab \/ name = N_symtab

\* the input sections with the three metadata sections included
IncludeMetadata(kelf) ==
    [kelf EXCEPT !.sections =
        [i \in 1..Len(kelf.sections) |->
            IF IsMetadataName(kelf.sections[i].name)
            THEN [kelf.sections[i] EXCEPT !.include = 1]
            ELSE kelf.sections[i]]]

\* the positions of the included sections, in order
IncludedSections(kelf) ==
    SetToSeq({i \in 1..Len(kelf.sections) : kelf.sections[i].include = 1})

\* a struct symbol after memset(0)
ZeroSym ==
    [twin |-> NULL, twino |-> NULL, sec |-> NULL,
     sym |-> [st_name |-> 0, st_info |-> 0, st_other |-> 0, st_shndx |-> 0,
              st_value |-> 0, st_size |-> 0],
     name |-> NULLSTR, index |-> 0, bind |-> 0, type |-> 0,
     status |-> STATUS_NEW, include |-> 0]

\* the output graph after the section copy loop: *secout = *sec, reindexed,
\* and the symbol table allocated for symbol 0 and the included symbols
CopySections(kelf) ==
    LET inc == IncludedSections(kelf)
        nsyms == Cardinality({p \in 1..Len(kelf.symbols) :
                                 p = 1 \/ kelf.symbols[p].include = 1})
    IN  [elf |-> NoElf,
         sections |-> [o \in 1..Len(inc) |->
                          [kelf.sections[inc[o]] EXCEPT !.index = o, !.twino = inc[o]]],
         symbols |-> [q \in 1..nsyms |-> ZeroSym]]

\* the input sections with sec->twino set by the section copy loop
LinkSections(kelf) ==
    LET inc == IncludedSections(kelf)
    IN  [kelf EXCEPT !.sections =
            [i \in 1..Len(kelf.sections) |->
                IF kelf.sections[i].include = 1
                THEN [kelf.sections[i] EXCEPT
                        !.twino = CHOOSE o \in 1..Len(inc) : inc[o] = i]
                ELSE kelf.sections[i]]]

IsFuncOrObject(sym) == sym.type = STT_OBJECT \/ sym.type = STT_FUNC

\* the first FUNC or OBJECT symbol without a section: the rewrite loop reads
\* sym->sec->include of it (0 when there is none)
FirstSymWithoutSection(kelf) ==
    LET bad == {p \in 2..Len(kelf.symbols) :
                   IsFuncOrObject(kelf.symbols[p]) /\ kelf.symbols[p].sec = NULL}
    IN  IF bad = {} THEN NULL ELSE MinOf(bad)

\* the symbol the rewrite loop leaves: undefined, global, NOTYPE, size 0
RewrittenSym(sym) ==
    [sym EXCEPT !.type = STT_NOTYPE, !.bind = STB_GLOBAL,
                !.sym = [@ EXCEPT !.st_info = GELF_ST_INFO(STB_GLOBAL, STT_NOTYPE),
                                  !.st_shndx = SHN_UNDEF,
                                  !.st_size = 0]]

\* the rewrite loop over the symbols below position n
RewriteSymbols(kelf, n) ==
    [kelf EXCEPT !.symbols =
        [p \in 1..Len(kelf.symbols) |->
            IF /\ p >= 2
               /\ p < n
               /\ IsFuncOrObject(kelf.symbols[p])
               /\ kelf.sections[kelf.symbols[p].sec].include = 0
            THEN RewrittenSym(kelf.symbols[p])
            ELSE kelf.symbols[p]]]

\* kpatch_generate_output up to the four calls of kpatch_copy_symbols; the
\* output graph reaches main's kelf_out only when the function returns
kpatch_generate_output ==
    /\ pc = "generate_output"
    /\ LET k == LinkSections(IncludeMetadata(kelf_patched))
           bad == FirstSymWithoutSection(k)
       IN  IF bad # NULL
           THEN /\ kelf_patched' = RewriteSymbols(k, bad)
                /\ Fault
                /\ UNCHANGED <<kelf_out, walk>>
           ELSE /\ kelf_patched' = RewriteSymbols(k, Len(k.symbols) + 1)
                /\ kelf_out' = CopySections(IncludeMetadata(kelf_patched))
                /\ pc' = "copy_symbols"
                /\ walk' = [walk EXCEPT !.i = 1]
                /\ UNCHANGED exit_status
    /\ UNCHANGED <<file_base, file_patched, kelf_base, stdout, elfout>>

is_file_sym(sym) == sym.type = STT_FILE
is_local_func_sym(sym) == sym.bind = STB_LOCAL /\ sym.type = STT_FUNC
is_local_sym(sym) == sym.bind = STB_LOCAL

\* the four calls with the second and the third exchanged
SelectedSwapped(pass, sym) ==
    CASE pass = 1 -> is_file_sym(sym)
      [] pass = 2 -> is_local_sym(sym)
      [] pass = 3 -> is_local_func_sym(sym)
      [] pass = 4 -> TRUE

\* the selection of each of the four calls; the last passes select = NULL
Selected(pass, sym) ==
    CASE pass = 1 -> is_file_sym(sym)
      [] pass = 2 -> is_local_func_sym(sym)
      [] pass = 3 -> is_local_sym(sym)
      [] pass = 4 -> TRUE

\* the positions of the symbols one call of kpatch_copy_symbols copies
CopiedBy(pass, src) ==
    SetToSeq({p \in 2..Len(src.symbols) :
                 src.symbols[p].include = 1 /\ Selected(pass, src.symbols[p])})

\* the number of output symbols filled so far, symbol 0 counted
FilledSymbols(dst) ==
    Cardinality({q \in 1..Len(dst.symbols) : q = 1 \/ dst.symbols[q].twino # NULL})

\* the output symbol copied from srcsym at C index index
CopiedSym(src, srcsym, p, index) ==
    [srcsym EXCEPT
        !.index = index,
        !.twino = p,
        !.sym = [@ EXCEPT !.st_shndx =
                    IF srcsym.sec # NULL /\ src.sections[srcsym.sec].twino # NULL
                    THEN src.sections[srcsym.sec].twino
                    ELSE @]]

\* dst after kpatch_copy_symbols(startndx, src, dst, select of pass)
kpatch_copy_symbols_dst(startndx, src, dst, pass) ==
    LET ps == CopiedBy(pass, src)
    IN  [dst EXCEPT !.symbols =
            [q \in 1..Len(dst.symbols) |->
                IF q - 1 >= startndx /\ q - 1 < startndx + Len(ps)
                THEN CopiedSym(src, src.symbols[ps[q - startndx]],
                               ps[q - startndx], q - 1)
                ELSE dst.symbols[q]]]

\* a copy that forgets srcsym->twino = dstsym
copy_symbols_src_unlinked(startndx, src, dst, pass) ==
    [src EXCEPT !.symbols =
        [p \in 1..Len(src.symbols) |->
            IF src.symbols[p].include = 1 /\ p >= 2 /\ Selected(pass, src.symbols[p])
            THEN [src.symbols[p] EXCEPT !.include = 0]
            ELSE src.symbols[p]]]

\* src after kpatch_copy_symbols(startndx, src, dst, select of pass)
kpatch_copy_symbols_src(startndx, src, dst, pass) ==
    LET ps == CopiedBy(pass, src)
    IN  [src EXCEPT !.symbols =
            [p \in 1..Len(src.symbols) |->
                IF \E n \in 1..Len(ps) : ps[n] = p
                THEN [src.symbols[p] EXCEPT
                        !.twino = startndx + (CHOOSE n \in 1..Len(ps) : ps[n] = p),
                        !.include = 0]
                ELSE src.symbols[p]]]

\* the four calls of kpatch_copy_symbols, one per step; walk.i is the pass
CopySymbols ==
    /\ pc = "copy_symbols"
    /\ LET startndx == FilledSymbols(kelf_out)
       IN  /\ kelf_out' = kpatch_copy_symbols_dst(startndx, kelf_patched, kelf_out,
                                                  walk.i)
           /\ kelf_patched' = kpatch_copy_symbols_src(startndx, kelf_patched, kelf_out,
                                                      walk.i)
    /\ walk' = [walk EXCEPT !.i = @ + 1]
    /\ pc' = IF walk.i = 4 THEN "create_rela_sections" ELSE "copy_symbols"
    /\ UNCHANGED <<exit_status, file_base, file_patched, kelf_base, stdout, elfout>>

(***************************************************************************)
(* Output synthesis: relocation sections, string tables, symbol table.     *)
(* The output sections and symbols point back at the patched graph         *)
(* (twino), and the relocation entries still point at patched symbols.     *)
(***************************************************************************)
\* ERROR("expected rela symbol") in kpatch_create_rela_section
RelaSymbolMissing(src, sec) ==
    \E k \in 1..Len(sec.relas) :
        \/ sec.relas[k].sym = NULL
        \/ src.symbols[sec.relas[k].sym].twino = NULL

\* a relocation section whose entries keep the symbol index of the input
create_rela_section_stale(src, kelf, sec, link) ==
    [sec EXCEPT
        !.data.d_buf = [k \in 1..Len(sec.relas) |-> sec.relas[k].rela],
        !.sh.sh_link = link,
        !.sh.sh_info =
            kelf.sections[src.sections[src.sections[sec.twino].base].twino].index]

\* the output relocation section sec with its entries reindexed, its data
\* buffer rebuilt and its header linked
kpatch_create_rela_section(src, kelf, sec, link) ==
    LET relas == [k \in 1..Len(sec.relas) |->
                     LET rela == sec.relas[k]
                         symndx == kelf.symbols[src.symbols[rela.sym].twino].index
                         type == GELF_R_TYPE(rela.rela.r_info)
                     IN  [rela EXCEPT !.rela.r_info = GELF_R_INFO(symndx, type)]]
    IN  [sec EXCEPT
            !.relas = relas,
            !.data.d_buf = [k \in 1..Len(relas) |-> relas[k].rela],
            !.sh.sh_link = link,
            !.sh.sh_info =
                kelf.sections[src.sections[src.sections[sec.twino].base].twino].index]

\* whether sec->twino->base->twino is read through a NULL pointer
RelaBaseMissing(src, sec) ==
    \/ src.sections[sec.twino].base = NULL
    \/ src.sections[src.sections[sec.twino].base].twino = NULL

kpatch_create_rela_sections ==
    /\ pc = "create_rela_sections"
    /\ LET link == kelf_out.sections[find_section_by_name(kelf_out.sections,
                                                          N_symtab)].index
           relasecs == {o \in 1..Len(kelf_out.sections) :
                           is_rela_section(kelf_out.sections[o])}
       IN  IF \E o \in relasecs : RelaSymbolMissing(kelf_patched, kelf_out.sections[o])
           THEN Exit(1) /\ UNCHANGED kelf_out
           ELSE IF \E o \in relasecs : RelaBaseMissing(kelf_patched, kelf_out.sections[o])
           THEN Fault /\ UNCHANGED kelf_out
           ELSE /\ kelf_out' =
                     [kelf_out EXCEPT !.sections =
                         [o \in 1..Len(kelf_out.sections) |->
                             IF o \in relasecs
                             THEN kpatch_create_rela_section(kelf_patched, kelf_out,
                                      kelf_out.sections[o], link)
                             ELSE kelf_out.sections[o]]]
                /\ pc' = "create_shstrtab"
                /\ UNCHANGED exit_status
    /\ UNCHANGED <<file_base, file_patched, kelf_base, kelf_patched, walk, stdout,
                   elfout>>

RECURSIVE strtab_offset(_, _)
\* offset after the loop that lays out the first n names: it starts at 1 and
\* advances by strlen(name) + 1
strtab_offset(names, n) ==
    IF n = 0 THEN 1 ELSE strtab_offset(names, n - 1) + strlen(names[n]) + 1

RECURSIVE strtab_size(_, _)
\* size after the loop that sizes the table for the first n names
strtab_size(names, n) ==
    IF n = 0 THEN 1 ELSE strtab_size(names, n - 1) + strlen(names[n]) + 1

\* a buffer laid out without the initial NUL byte
strtab_buf_shifted(names, size) ==
    [b \in 1..size |->
        LET at == {n \in 1..Len(names) :
                      /\ b > strtab_offset(names, n - 1) - 1
                      /\ b <= strtab_offset(names, n - 1) - 1 + strlen(names[n])}
        IN  IF at = {} THEN NUL
            ELSE names[MinOf(at)][b - (strtab_offset(names, MinOf(at) - 1) - 1)]]

\* the buffer of size bytes after memset(0) and one memcpy of each name, NUL
\* included, at its offset
strtab_buf(names, size) ==
    [b \in 1..size |->
        LET at == {n \in 1..Len(names) :
                      /\ b > strtab_offset(names, n - 1)
                      /\ b <= strtab_offset(names, n - 1) + strlen(names[n])}
        IN  IF at = {} THEN NUL
            ELSE names[MinOf(at)][b - strtab_offset(names, MinOf(at) - 1)]]

\* the names of the sections, in table order
SectionNames(kelf) == [o \in 1..Len(kelf.sections) |-> kelf.sections[o].name]

kpatch_create_shstrtab ==
    /\ pc = "create_shstrtab"
    /\ LET shstrtab == find_section_by_name(kelf_out.sections, N_shstrtab)
           names == SectionNames(kelf_out)
           size == strtab_size(names, Len(names))
           buf == strtab_buf(names, size)
       IN  IF shstrtab = NULL \/ strtab_offset(names, Len(names)) # size
           THEN Exit(1) /\ UNCHANGED kelf_out
           ELSE /\ kelf_out' =
                     [kelf_out EXCEPT !.sections =
                         [o \in 1..Len(kelf_out.sections) |->
                             [kelf_out.sections[o] EXCEPT
                                 !.sh.sh_name = strtab_offset(names, o - 1),
                                 !.data = IF o = shstrtab
                                          THEN [d_buf |-> buf, d_size |-> size]
                                          ELSE @]]]
                /\ pc' = "create_strtab"
                /\ UNCHANGED exit_status
    /\ UNCHANGED <<file_base, file_patched, kelf_base, kelf_patched, walk, stdout,
                   elfout>>

\* the positions of the symbols whose names the string table holds, in order
NamedSymbols(kelf) ==
    SetToSeq({q \in 2..Len(kelf.symbols) : kelf.symbols[q].type # STT_SECTION})

kpatch_create_strtab ==
    /\ pc = "create_strtab"
    /\ LET strtab == find_section_by_name(kelf_out.sections, N_strtab)
           qs == NamedSymbols(kelf_out)
           names == [n \in 1..Len(qs) |-> kelf_out.symbols[qs[n]].name]
           size == strtab_size(names, Len(names))
           buf == strtab_buf(names, size)
       IN  IF strtab = NULL \/ strtab_offset(names, Len(names)) # size
           THEN Exit(1) /\ UNCHANGED kelf_out
           ELSE /\ kelf_out' =
                     [kelf_out EXCEPT
                         !.symbols =
                             [q \in 1..Len(kelf_out.symbols) |->
                                 IF q = 1 THEN kelf_out.symbols[q]
                                 ELSE IF kelf_out.symbols[q].type = STT_SECTION
                                 THEN [kelf_out.symbols[q] EXCEPT !.sym.st_name = 0]
                                 ELSE [kelf_out.symbols[q] EXCEPT !.sym.st_name =
                                         strtab_offset(names,
                                             (CHOOSE n \in 1..Len(qs) : qs[n] = q) - 1)]],
                         !.sections[strtab].data = [d_buf |-> buf, d_size |-> size]]
                /\ pc' = "create_symtab"
                /\ UNCHANGED exit_status
    /\ UNCHANGED <<file_base, file_patched, kelf_base, kelf_patched, walk, stdout,
                   elfout>>

kpatch_create_symtab ==
    /\ pc = "create_symtab"
    /\ LET symtab == find_section_by_name(kelf_out.sections, N_symtab)
           strtab == find_section_by_name(kelf_out.sections, N_strtab)
           shstrtab == find_section_by_name(kelf_out.sections, N_shstrtab)
           nr == Len(kelf_out.symbols)
       IN  IF symtab = NULL
           THEN Exit(1) /\ UNCHANGED kelf_out
           ELSE /\ kelf_out' =
                     [kelf_out EXCEPT !.sections[symtab] =
                         [@ EXCEPT
                             !.data = [d_buf |-> [q \in 1..nr |-> kelf_out.symbols[q].sym],
                                       d_size |-> nr * kelf_out.sections[symtab]
                                                           .sh.sh_entsize],
                             !.sh.sh_link = kelf_out.sections[strtab].index,
                             !.sh.sh_info = kelf_out.sections[shstrtab].index]]
                /\ pc' = "write_output_elf"
                /\ UNCHANGED exit_status
    /\ UNCHANGED <<file_base, file_patched, kelf_base, kelf_patched, walk, stdout,
                   elfout>>

(***************************************************************************)
(* Writing the output object.  The section headers and data are written    *)
(* as kelf_out holds them; elfout is the ELF header of the written file.   *)
(* libelf is elfutils: gelf_getclass(NULL) is ELFCLASSNONE, gelf_newehdr   *)
(* makes a 32-bit header for ELFCLASS32 and a 64-bit header for any other  *)
(* class, gelf_update_ehdr stores the header it is given, and elf_update   *)
(* fills in the magic bytes, EI_CLASS, EI_VERSION and, when it is          *)
(* ELFDATANONE, EI_DATA.                                                    *)
(***************************************************************************)
gelf_getclass(elf) == IF elf.open THEN elf.ehdr.e_ident[EI_CLASS + 1] ELSE ELFCLASSNONE

\* the class of the header gelf_newehdr(elfout, class) creates
gelf_newehdr(class) == IF class = ELFCLASS32 THEN ELFCLASS32 ELSE ELFCLASS64

\* GElf_Ehdr ehout as kpatch_write_output_elf fills it after memset(0)
OutputEhdr(kelf, eh) ==
    [e_ident |-> [b \in 1..EI_NIDENT |->
                     IF b = EI_DATA + 1 THEN eh.e_ident[EI_DATA + 1] ELSE 0],
     e_type |-> eh.e_type,
     e_machine |-> eh.e_machine,
     e_version |-> EV_CURRENT,
     e_entry |-> 0, e_phoff |-> 0, e_flags |-> 0, e_phentsize |-> 0,
     e_shstrndx |-> kelf.sections[find_section_by_name(kelf.sections, N_shstrtab)].index]

\* the header elf_update writes for a header ehdr of class class
elf_update(ehdr, class) ==
    [ehdr EXCEPT
        !.e_ident = [b \in 1..EI_NIDENT |->
                        CASE b = 1 -> 127
                          [] b = 2 -> 69
                          [] b = 3 -> 76
                          [] b = 4 -> 70
                          [] b = EI_CLASS + 1 -> class
                          [] b = EI_DATA + 1 -> IF @[b] = 0 THEN 1 ELSE @[b]
                          [] b = EI_VERSION + 1 -> EV_CURRENT
                          [] OTHER -> @[b]]]

kpatch_write_output_elf ==
    /\ pc = "write_output_elf"
    /\ elfout' = elf_update(OutputEhdr(kelf_out, kelf_patched.elf.ehdr),
                            gelf_newehdr(gelf_getclass(kelf_out.elf)))
    /\ Exit(0)
    /\ UNCHANGED <<file_base, file_patched, kelf_base, kelf_patched, kelf_out, walk,
                   stdout>>

Next ==
    \/ ElfOpenBase
    \/ ElfOpenPatched
    \/ kpatch_compare_elf_headers
    \/ kpatch_check_program_headers
    \/ CorrelateSections
    \/ CorrelateSymbols
    \/ CorrelateRelas
    \/ CompareNonrelaSections
    \/ CompareSymbols
    \/ SetRelaSectionStatus
    \/ ReplaceSectionsSyms
    \/ kpatch_include_changed_functions
    \/ IncludeSymbol
    \/ kpatch_generate_output
    \/ CopySymbols
    \/ kpatch_create_rela_sections
    \/ kpatch_create_shstrtab
    \/ kpatch_create_strtab
    \/ kpatch_create_symtab
    \/ kpatch_write_output_elf

Spec == Init /\ [][Next]_vars

\* main() is one sequential process that keeps running until it exits or is
\* killed: a step of the inclusion walk that can be taken is taken
FairSpec ==
    Spec /\ WF_vars(kpatch_include_changed_functions) /\ WF_vars(IncludeSymbol)

(***************************************************************************)
(* Properties.                                                             *)
(***************************************************************************)
\* main() returned 0: the output object is written
Succeeded == pc = "exit" /\ exit_status = 0

\* the stages after the symbols are copied, where the output graph is whole
Synthesised ==
    pc \in {"create_rela_sections", "create_shstrtab", "create_strtab",
            "create_symtab", "write_output_elf"} \/ Succeeded

\* the stages after the relocation sections are rebuilt
Reindexed ==
    pc \in {"create_shstrtab", "create_strtab", "create_symtab", "write_output_elf"}
    \/ Succeeded

\* the positions of the relocation sections of the output graph
OutputRelaSections ==
    {o \in 1..Len(kelf_out.sections) : is_rela_section(kelf_out.sections[o])}

\* C1 (closure completeness): once the output graph is synthesised, and so on
\* every run that succeeds, the target of every relocation entry of every
\* output relocation section is a patched symbol that was copied into the
\* output symbol table: it has an output crosslink, and the output symbol it
\* names points back at it, so "expected rela symbol" is never hit.
ClosureCompleteness ==
    /\ Synthesised =>
          \A o \in OutputRelaSections :
              \A k \in 1..Len(kelf_out.sections[o].relas) :
                  LET t == kelf_out.sections[o].relas[k].sym
                  IN  /\ t # NULL
                      /\ kelf_patched.symbols[t].twino # NULL
                      /\ kelf_patched.symbols[t].twino \in 2..Len(kelf_out.symbols)
                      /\ kelf_out.symbols[kelf_patched.symbols[t].twino].twino = t
    /\ ~(pc = "exit" /\ exit_status = 1 /\ kelf_out # NoKelf)

\* a successful run whose output has a relocation section with two entries,
\* one of them aimed at a symbol of another included section
ClosureCompletenessWitness ==
    /\ Succeeded
    /\ \E o \in OutputRelaSections :
          /\ Len(kelf_out.sections[o].relas) >= 2
          /\ \E k \in 1..Len(kelf_out.sections[o].relas) :
                LET t == kelf_patched.symbols[kelf_out.sections[o].relas[k].sym]
                IN  t.sec # NULL /\ t.sec # kelf_patched.sections[
                                               kelf_out.sections[o].twino].base

\* the relocation record the patched input holds for entry k of the output
\* relocation section o
InputRela(o, k) ==
    file_patched.sections[kelf_out.sections[o].twino].d_buf[k]

\* the patched symbol a relocation aimed at C index symndx targets after
\* section-symbol substitution: the entity symbol of the section when the
\* symbol is the SECTION symbol of a section that has one
SubstitutedTarget(symndx) ==
    LET sym == kelf_patched.symbols[symndx + 1]
    IN  IF /\ GELF_ST_TYPE(file_patched.sections[
                  find_section_by_name(kelf_patched.sections, N_symtab)]
                       .d_buf[symndx + 1].st_info) = STT_SECTION
           /\ sym.sec # NULL
           /\ kelf_patched.sections[sym.sec].sym # NULL
        THEN kelf_patched.sections[sym.sec].sym
        ELSE symndx + 1

\* C2 (relocation semantics): every relocation record of the output has the
\* type, offset and addend of the patched-input record it was copied from,
\* and its symbol index is the index of the output symbol whose display name
\* is the name of the input target after section-symbol substitution.
RelocationSemantics ==
    Reindexed =>
        \A o \in OutputRelaSections :
            LET buf == kelf_out.sections[o].data.d_buf
            IN  /\ Len(buf) = Len(file_patched.sections[kelf_out.sections[o].twino].d_buf)
                /\ \A k \in 1..Len(buf) :
                      LET in == InputRela(o, k)
                          q == GELF_R_SYM(buf[k].r_info) + 1
                      IN  /\ GELF_R_TYPE(buf[k].r_info) = GELF_R_TYPE(in.r_info)
                          /\ buf[k].r_offset = in.r_offset
                          /\ buf[k].r_addend = in.r_addend
                          /\ q \in 2..Len(kelf_out.symbols)
                          /\ kelf_out.symbols[q].index = GELF_R_SYM(buf[k].r_info)
                          /\ kelf_out.symbols[q].name =
                                kelf_patched.symbols[
                                    SubstitutedTarget(GELF_R_SYM(in.r_info))].name

\* a successful run with an output relocation whose input target was a
\* SECTION symbol that was substituted, and whose symbol index was rewritten
RelocationSemanticsWitness ==
    /\ Succeeded
    /\ \E o \in OutputRelaSections :
          \E k \in 1..Len(kelf_out.sections[o].data.d_buf) :
              /\ SubstitutedTarget(GELF_R_SYM(InputRela(o, k).r_info))
                    # GELF_R_SYM(InputRela(o, k).r_info) + 1
              /\ GELF_R_SYM(kelf_out.sections[o].data.d_buf[k].r_info)
                    # GELF_R_SYM(InputRela(o, k).r_info)

\* the symbols one step of the closure walk leads to from symbol p: the
\* targets of the relocation section attached to the section that owns p
WalkTargets(kelf, p) ==
    IF IncludeLoops(kelf, p)
    THEN LET relas == kelf.sections[kelf.sections[kelf.symbols[p].sec].rela].relas
         IN  {relas[j].sym : j \in 1..Len(relas)}
    ELSE {}

RECURSIVE WalkClosure(_, _)
\* the symbols the inclusion rules reach from the symbols S
WalkClosure(kelf, S) ==
    LET T == S \cup UNION {WalkTargets(kelf, p) : p \in S}
    IN  IF T = S THEN S ELSE WalkClosure(kelf, T)

\* the sections the inclusion rules reach from the CHANGED FUNC symbols:
\* the owning sections of the symbols reached and their relocation sections
ReachableSections(kelf) ==
    LET roots == {p \in 2..Len(kelf.symbols) :
                     kelf.symbols[p].status = CHANGED /\ kelf.symbols[p].type = STT_FUNC}
        syms == WalkClosure(kelf, roots)
    IN  {kelf.symbols[p].sec : p \in {q \in syms : ~IncludeStops(kelf, q)}}
        \cup {kelf.sections[kelf.symbols[p].sec].rela :
                 p \in {q \in syms : IncludeLoops(kelf, q)}}

\* C3 (closure minimality): at every point of the run, a section of the
\* patched graph whose include flag is set, and every section of the output,
\* is .symtab, .strtab or .shstrtab or is reachable by the inclusion rules
\* from a FUNC symbol whose status is CHANGED.
ClosureMinimality ==
    LET included == {i \in 1..Len(kelf_patched.sections) :
                        /\ kelf_patched.sections[i].include = 1
                        /\ ~IsMetadataName(kelf_patched.sections[i].name)}
        output == {kelf_out.sections[o].twino : o \in
                      {n \in 1..Len(kelf_out.sections) :
                          ~IsMetadataName(kelf_out.sections[n].name)}}
    IN  (included \cup output) # {} =>
            (included \cup output) \subseteq ReachableSections(kelf_patched)

\* a successful run whose output holds a content section that was reached
\* through a relocation, while another content section was left out
ClosureMinimalityWitness ==
    /\ Succeeded
    /\ \E o \in 1..Len(kelf_out.sections) :
          /\ ~IsMetadataName(kelf_out.sections[o].name)
          /\ ~is_rela_section(kelf_out.sections[o])
          /\ \A p \in 2..Len(kelf_patched.symbols) :
                kelf_patched.symbols[p].sec = kelf_out.sections[o].twino
                    => ~(kelf_patched.symbols[p].status = CHANGED
                         /\ kelf_patched.symbols[p].type = STT_FUNC)
    /\ \E i \in 1..Len(kelf_patched.sections) :
          /\ kelf_patched.sections[i].include = 0
          /\ ~is_rela_section(kelf_patched.sections[i])

\* the run is over: main() returned or called exit(), or the process was
\* killed by a signal
Ended == pc \in {"exit", "fault"}

\* the inputs were rejected: ERROR() ended the run with 1, DIFF_FATAL() with 2
Rejected == pc = "exit" /\ exit_status \in {1, 2}

\* the stages after correlation and comparison
Compared ==
    pc \in {"replace_sections_syms", "include_changed_functions", "generate_output",
            "copy_symbols"} \/ Synthesised

\* the output graph holds the three metadata sections and nothing else, and
\* its symbol table the null symbol and the FILE symbols and nothing else
OnlyMetadata(kelf) ==
    /\ Len(kelf.sections) = 3
    /\ {kelf.sections[o].name : o \in 1..Len(kelf.sections)}
          = {N_shstrtab, N_strtab, N_symtab}
    /\ Len(kelf.symbols) >= 1
    /\ kelf.symbols[1].sym = ZeroSym.sym
    /\ \A q \in 2..Len(kelf.symbols) :
          GELF_ST_TYPE(kelf.symbols[q].sym.st_info) = STT_FILE
    /\ Cardinality({q \in 2..Len(kelf.symbols) : TRUE})
          = Cardinality({p \in 2..Len(kelf_patched.symbols) :
                            kelf_patched.symbols[p].type = STT_FILE})

\* C4 (round-trip identity): when the base and patched inputs are identical
\* and are not rejected, after correlation and comparison no FUNC symbol is
\* CHANGED, and the run ends with an output graph that holds exactly
\* .shstrtab, .strtab and .symtab and a symbol table of the null symbol and
\* the FILE symbols.
RoundTripIdentity ==
    file_base = file_patched =>
        /\ Compared =>
              \A p \in 2..Len(kelf_patched.symbols) :
                  ~(kelf_patched.symbols[p].type = STT_FUNC
                    /\ kelf_patched.symbols[p].status = CHANGED)
        /\ (Ended /\ ~Rejected) => (Succeeded /\ OnlyMetadata(kelf_out))

\* what does hold for identical inputs: no FUNC symbol is CHANGED, and a
\* run that succeeds has the output the claim describes
RoundTripIdentityOnSuccess ==
    file_base = file_patched =>
        /\ Compared =>
              \A p \in 2..Len(kelf_patched.symbols) :
                  ~(kelf_patched.symbols[p].type = STT_FUNC
                    /\ kelf_patched.symbols[p].status = CHANGED)
        /\ Succeeded => OnlyMetadata(kelf_out)

\* the place of an output symbol in the order of the four copies
SymbolClass(sym) ==
    LET bind == GELF_ST_BIND(sym.sym.st_info)
        type == GELF_ST_TYPE(sym.sym.st_info)
    IN  CASE type = STT_FILE -> 1
          [] type # STT_FILE /\ bind = STB_LOCAL /\ type = STT_FUNC -> 2
          [] type # STT_FILE /\ bind = STB_LOCAL /\ type # STT_FUNC -> 3
          [] OTHER -> 4

\* C5 (symbol ordering): in the output symbol table index 0 is the null
\* symbol, the indexes are dense, and the symbols come in the order FILE,
\* LOCAL FUNC, other LOCAL, non-LOCAL, by the bind and type they carry after
\* the rewrite of the symbols whose section is absent; so no LOCAL symbol
\* comes after a non-LOCAL symbol.
SymbolOrdering ==
    Synthesised =>
        /\ Len(kelf_out.symbols) >= 1
        /\ kelf_out.symbols[1].sym = ZeroSym.sym
        /\ \A q \in 1..Len(kelf_out.symbols) : kelf_out.symbols[q].index = q - 1
        /\ \A q \in 2..Len(kelf_out.symbols) :
              /\ kelf_out.symbols[q].twino # NULL
              /\ kelf_out.symbols[q].bind = GELF_ST_BIND(kelf_out.symbols[q].sym.st_info)
              /\ kelf_out.symbols[q].type = GELF_ST_TYPE(kelf_out.symbols[q].sym.st_info)
        /\ \A q, r \in 2..Len(kelf_out.symbols) :
              q < r => SymbolClass(kelf_out.symbols[q]) <= SymbolClass(kelf_out.symbols[r])
        /\ \A q, r \in 2..Len(kelf_out.symbols) :
              (/\ GELF_ST_BIND(kelf_out.symbols[q].sym.st_info) = STB_LOCAL
               /\ GELF_ST_BIND(kelf_out.symbols[r].sym.st_info) # STB_LOCAL) => q < r

\* a successful run whose output has a symbol of each of the four classes,
\* one of them rewritten, copied in another order than the patched input's
SymbolOrderingWitness ==
    /\ Succeeded
    /\ \A c \in 1..4 : \E q \in 2..Len(kelf_out.symbols) :
          SymbolClass(kelf_out.symbols[q]) = c
    /\ \E q, r \in 2..Len(kelf_out.symbols) :
          q < r /\ kelf_out.symbols[q].twino > kelf_out.symbols[r].twino
    /\ \E q \in 2..Len(kelf_out.symbols) :
          /\ kelf_out.symbols[q].sym.st_info = GELF_ST_INFO(STB_GLOBAL, STT_NOTYPE)
          /\ kelf_out.symbols[q].sec # NULL

RECURSIVE SumOfLengths(_, _)
\* 1 plus the sum of (name length + 1) over the first n names
SumOfLengths(names, n) ==
    IF n = 0 THEN 1 ELSE SumOfLengths(names, n - 1) + Len(names[n]) + 1

\* the stages after .shstrtab is rebuilt, and after .strtab is rebuilt
ShstrtabBuilt == pc \in {"create_strtab", "create_symtab", "write_output_elf"} \/ Succeeded
StrtabBuilt == pc \in {"create_symtab", "write_output_elf"} \/ Succeeded

\* C6 (string-table integrity): once .shstrtab is rebuilt, the name offset
\* of every output section points into it at a NUL-terminated string equal
\* to the section's name; once .strtab is rebuilt, the name offset of every
\* output symbol other than index 0 and the SECTION symbols points into it at
\* a NUL-terminated string equal to the symbol's name, and every SECTION
\* symbol has name offset 0; each table's size is 1 plus the sum of (name
\* length + 1) over the names written.
StringTableIntegrity ==
    /\ ShstrtabBuilt =>
          LET tab == kelf_out.sections[find_section_by_name(kelf_out.sections,
                                                            N_shstrtab)].data
              names == [o \in 1..Len(kelf_out.sections) |-> kelf_out.sections[o].name]
          IN  /\ \A o \in 1..Len(kelf_out.sections) :
                    /\ HasCStr(tab.d_buf, kelf_out.sections[o].sh.sh_name)
                    /\ CStr(tab.d_buf, kelf_out.sections[o].sh.sh_name)
                          = kelf_out.sections[o].name
              /\ tab.d_size = SumOfLengths(names, Len(names))
              /\ tab.d_size = Len(tab.d_buf)
    /\ StrtabBuilt =>
          LET tab == kelf_out.sections[find_section_by_name(kelf_out.sections,
                                                            N_strtab)].data
              qs == SetToSeq({q \in 2..Len(kelf_out.symbols) :
                                 kelf_out.symbols[q].type # STT_SECTION})
              names == [n \in 1..Len(qs) |-> kelf_out.symbols[qs[n]].name]
          IN  /\ \A q \in 2..Len(kelf_out.symbols) :
                    IF kelf_out.symbols[q].type = STT_SECTION
                    THEN kelf_out.symbols[q].sym.st_name = 0
                    ELSE /\ HasCStr(tab.d_buf, kelf_out.symbols[q].sym.st_name)
                         /\ CStr(tab.d_buf, kelf_out.symbols[q].sym.st_name)
                               = kelf_out.symbols[q].name
              /\ tab.d_size = SumOfLengths(names, Len(names))
              /\ tab.d_size = Len(tab.d_buf)
    /\ Succeeded =>
          LET symtab == kelf_out.sections[find_section_by_name(kelf_out.sections,
                                                               N_symtab)].data.d_buf
          IN  \A q \in 1..Len(kelf_out.symbols) :
                  symtab[q].st_name = kelf_out.symbols[q].sym.st_name

\* a successful run whose output has content sections, SECTION symbols and
\* named symbols, with name offsets that differ from the patched input's
StringTableIntegrityWitness ==
    /\ Succeeded
    /\ Len(kelf_out.sections) >= 5
    /\ \E q \in 2..Len(kelf_out.symbols) : kelf_out.symbols[q].type = STT_SECTION
    /\ \E q \in 2..Len(kelf_out.symbols) :
          /\ kelf_out.symbols[q].type # STT_SECTION
          /\ kelf_out.symbols[q].sym.st_name
                # kelf_patched.symbols[kelf_out.symbols[q].twino].sym.st_name
    /\ \E o \in 1..Len(kelf_out.sections) :
          kelf_out.sections[o].sh.sh_name
              # kelf_patched.sections[kelf_out.sections[o].twino].sh.sh_name

\* C7 (header preservation): on every successful run the header written for
\* the output has the identification bytes, machine, type, class and
\* data encoding of the patched input's header.
HeaderPreservation ==
    Succeeded =>
        /\ elfout.e_ident = file_patched.ehdr.e_ident
        /\ elfout.e_machine = file_patched.ehdr.e_machine
        /\ elfout.e_type = file_patched.ehdr.e_type
        /\ elfout.e_ident[EI_CLASS + 1] = file_patched.ehdr.e_ident[EI_CLASS + 1]
        /\ elfout.e_ident[EI_DATA + 1] = file_patched.ehdr.e_ident[EI_DATA + 1]

\* what the written header does keep: machine, type, data encoding, and the
\* identification bytes other than EI_OSABI and EI_ABIVERSION
HeaderPreservationButAbi ==
    Succeeded =>
        /\ elfout.e_machine = file_patched.ehdr.e_machine
        /\ elfout.e_type = file_patched.ehdr.e_type
        /\ \A b \in 1..EI_NIDENT :
              b \notin {EI_OSABI + 1, EI_OSABI + 2}
                  => elfout.e_ident[b] = file_patched.ehdr.e_ident[b]
        /\ elfout.e_ident[EI_OSABI + 1] = 0
        /\ elfout.e_ident[EI_OSABI + 2] = 0

\* the two file headers differ in a field the claim lists, or an input has
\* program headers
HeadersDisagree ==
    \/ \E f \in {"e_ident", "e_type", "e_machine", "e_version", "e_entry", "e_phoff",
                 "e_flags", "e_ehsize", "e_phentsize", "e_shentsize"} :
          file_base.ehdr[f] # file_patched.ehdr[f]
    \/ file_base.phnum # 0
    \/ file_patched.phnum # 0

\* kpatch_elf_open returned a graph for both inputs
BothLoaded == kelf_base.elf.open /\ kelf_patched.elf.open

\* C8 as stated (header validation comes first): for every pair of inputs
\* whose headers disagree or that have program headers, the run ends with
\* exit status 2, whatever the loader would say of them.
HeaderValidationFirst ==
    (HeadersDisagree /\ Ended) => exit_status = 2

\* C8 as amended (header validation follows the loader): for every pair of
\* inputs that both load and whose headers disagree or that have program
\* headers, the run never reaches the correlator, the comparator or a later
\* stage and ends with exit status 2; and no run ends with exit status 2
\* before both inputs are loaded.
HeaderValidationAfterLoad ==
    /\ (HeadersDisagree /\ BothLoaded) =>
          /\ pc \in {"compare_elf_headers", "check_program_headers_base",
                     "check_program_headers_patched", "exit"}
          /\ pc = "exit" => exit_status = 2
          /\ \A i \in 1..Len(kelf_patched.sections) :
                kelf_patched.sections[i].twin = NULL
    /\ (pc = "exit" /\ exit_status = 2) => BothLoaded
    /\ (HeadersDisagree /\ Ended /\ ~BothLoaded) => exit_status = 1

\* both inputs load, their headers differ, and the run ended with status 2
HeaderValidationWitness ==
    /\ BothLoaded
    /\ file_base.ehdr # file_patched.ehdr
    /\ pc = "exit"
    /\ exit_status = 2
    /\ stdout = <<<<"ELF headers differ">>>>

\* the symbol records of an input as its .symtab holds them
RawSymbols(file, kelf) ==
    file.sections[find_section_by_name(kelf.sections, N_symtab)].d_buf

\* a twinned content section of the patched graph differs from its twin in
\* type, flags, address, alignment or entry size
SectionDetailsDiffer ==
    \E i \in 1..Len(kelf_patched.sections) :
        /\ kelf_patched.sections[i].twin # NULL
        /\ ~is_rela_section(kelf_patched.sections[i])
        /\ \E f \in {"sh_type", "sh_flags", "sh_addr", "sh_addralign", "sh_entsize"} :
              kelf_patched.sections[i].sh[f]
                  # kelf_base.sections[kelf_patched.sections[i].twin].sh[f]

\* a twinned symbol of the patched graph differs from its twin in info byte,
\* other byte or section binding, or is an OBJECT of another size
SymbolDetailsDiffer ==
    \E p \in 2..Len(kelf_patched.symbols) :
        /\ kelf_patched.symbols[p].twin # NULL
        /\ LET sym1 == kelf_patched.symbols[p]
               sym2 == kelf_base.symbols[sym1.twin]
               raw1 == RawSymbols(file_patched, kelf_patched)[p]
               raw2 == RawSymbols(file_base, kelf_base)[sym1.twin]
           IN  \/ raw1.st_info # raw2.st_info
               \/ raw1.st_other # raw2.st_other
               \/ (sym1.sec = NULL) # (sym2.sec = NULL)
               \/ /\ sym1.sec # NULL
                  /\ sym2.sec # NULL
                  /\ kelf_patched.sections[sym1.sec].twin # sym2.sec
               \/ /\ GELF_ST_TYPE(raw1.st_info) = STT_OBJECT
                  /\ raw1.st_size # raw2.st_size

\* the inclusion walk, output synthesis or emission has started
WalkStarted ==
    pc \in {"include_changed_functions", "generate_output", "copy_symbols"}
    \/ Synthesised

\* C9 (comparator mismatches are fatal): if a twinned content section of the
\* patched graph differs from its twin in its header details, or a twinned
\* symbol in info byte, other byte, section binding or OBJECT size, the
\* inclusion walk, output synthesis and emission never run and the run ends
\* with exit status 2.
ComparatorMismatchFatal ==
    (SectionDetailsDiffer \/ SymbolDetailsDiffer) =>
        /\ ~WalkStarted
        /\ Ended => exit_status = 2

\* what does hold: the mismatch keeps the later stages from running, and a
\* run that is not killed in the correlator ends with exit status 2
ComparatorMismatchFatalUnlessKilled ==
    (SectionDetailsDiffer \/ SymbolDetailsDiffer) =>
        /\ ~WalkStarted
        /\ pc = "exit" => exit_status = 2

\* the position of the first line of seq equal to line, 0 when there is none
IndexOf(seq, line) ==
    IF \E n \in 1..Len(seq) : seq[n] = line
    THEN MinOf({n \in 1..Len(seq) : seq[n] = line})
    ELSE 0

\* C10 (change reporting): on every successful run the tool prints what
\* kpatch_find_changed_functions prints: "no changes found" exactly when no
\* FUNC symbol of the patched graph is CHANGED, and otherwise "function
\* <name> has changed" for each FUNC symbol whose status is CHANGED.
ChangeReporting ==
    Succeeded =>
        LET changed == {p \in 2..Len(kelf_patched.symbols) :
                           /\ kelf_patched.symbols[p].type = STT_FUNC
                           /\ kelf_patched.symbols[p].status = CHANGED}
        IN  /\ (IndexOf(stdout, <<"no changes found">>) # 0) <=> (changed = {})
            /\ \A p \in changed :
                  IndexOf(stdout, <<"function has changed",
                                    kelf_patched.symbols[p].name>>) # 0

\* what the run does print: one "changed function: <name>" line for each
\* FUNC symbol whose status is CHANGED, and nothing when there is none
ChangedFunctionLines ==
    Succeeded =>
        LET changed == {p \in 2..Len(kelf_patched.symbols) :
                           /\ kelf_patched.symbols[p].type = STT_FUNC
                           /\ kelf_patched.symbols[p].status = CHANGED}
        IN  /\ Len(stdout) = Cardinality(changed)
            /\ \A p \in changed :
                  IndexOf(stdout, <<"changed function",
                                    kelf_patched.symbols[p].name>>) # 0


\* the FUNC symbols of the patched object that have no counterpart in base:
\* neither the symbol nor its section has a twin
AddedFunctions ==
    {p \in 2..Len(kelf_patched.symbols) :
        /\ GELF_ST_TYPE(RawSymbols(file_patched, kelf_patched)[p].st_info) = STT_FUNC
        /\ kelf_patched.symbols[p].twin = NULL
        /\ kelf_patched.symbols[p].sec # NULL
        /\ kelf_patched.sections[kelf_patched.symbols[p].sec].twin = NULL}

\* the sections of the functions of the patched object that are byte-identical
\* to base with every relocation paired: the section, and its relocation
\* section if it has one, are SAME
UnchangedFunctionSections ==
    {i \in 1..Len(kelf_patched.sections) :
        LET sec == kelf_patched.sections[i]
        IN  /\ ~is_rela_section(sec)
            /\ sec.twin # NULL
            /\ sec.status = SAME
            /\ sec.sym # NULL
            /\ GELF_ST_TYPE(RawSymbols(file_patched, kelf_patched)[sec.sym].st_info)
                  = STT_FUNC
            /\ sec.rela # NULL =>
                  /\ kelf_patched.sections[sec.rela].status = SAME
                  /\ \A k \in 1..Len(kelf_patched.sections[sec.rela].relas) :
                        kelf_patched.sections[sec.rela].relas[k].twin # NULL}

\* the patched symbol p has a copy in the output symbol table
SymbolInOutput(p) ==
    \E q \in 2..Len(kelf_out.symbols) : kelf_out.symbols[q].twino = p

\* the patched section i has a copy in the output section table
SectionInOutput(i) ==
    \E o \in 1..Len(kelf_out.sections) : kelf_out.sections[o].twino = i

\* C11 (added function): on a successful run in which the patched object adds
\* a function (FUNC symbol and section untwinned) and an existing function is
\* unchanged with all its relocations paired, the output holds the added
\* function's symbol and section and does not hold the unchanged function's
\* section.
AddedFunction ==
    (Succeeded /\ UnchangedFunctionSections # {}) =>
        \A p \in AddedFunctions :
            /\ SymbolInOutput(p)
            /\ SectionInOutput(kelf_patched.symbols[p].sec)
            /\ \A i \in UnchangedFunctionSections : ~SectionInOutput(i)

\* what does hold: the unchanged function's section is left out, and so is the
\* added function, whose status NEW the inclusion walk does not start from
AddedFunctionLeftOut ==
    (Succeeded /\ UnchangedFunctionSections # {}) =>
        \A p \in AddedFunctions :
            /\ \A i \in UnchangedFunctionSections : ~SectionInOutput(i)
            /\ ~SectionInOutput(kelf_patched.symbols[p].sec)
            /\ ~SymbolInOutput(p)

\* the rewrite loop of kpatch_generate_output has run to its end
Rewritten == pc = "copy_symbols" \/ Synthesised

\* the section of the patched symbol p is not in the output: p is bound to a
\* section that is not included, or has no owning section
SectionAbsent(p) ==
    \/ kelf_patched.symbols[p].sec = NULL
    \/ kelf_patched.sections[kelf_patched.symbols[p].sec].include = 0

\* after the rewrite loop every FUNC or OBJECT symbol of the patched object
\* whose section is absent is GLOBAL, NOTYPE, of size 0 and section index
\* UNDEF, and every other one keeps its bind, type and size
SymbolsRewritten ==
    Rewritten =>
        \A p \in 2..Len(kelf_patched.symbols) :
            LET raw == RawSymbols(file_patched, kelf_patched)[p]
                sym == kelf_patched.symbols[p]
            IN  GELF_ST_TYPE(raw.st_info) \in {STT_FUNC, STT_OBJECT} =>
                    IF SectionAbsent(p)
                    THEN /\ sym.bind = STB_GLOBAL
                         /\ sym.type = STT_NOTYPE
                         /\ sym.sym.st_info = GELF_ST_INFO(STB_GLOBAL, STT_NOTYPE)
                         /\ sym.sym.st_size = 0
                         /\ sym.sym.st_shndx = SHN_UNDEF
                    ELSE /\ sym.bind = GELF_ST_BIND(raw.st_info)
                         /\ sym.type = GELF_ST_TYPE(raw.st_info)
                         /\ sym.sym.st_info = raw.st_info
                         /\ sym.sym.st_size = raw.st_size

\* C12 (symbol rewrite for absent sections): the rewrite loop leaves every
\* FUNC or OBJECT symbol whose section is not in the output, bound to a
\* section or not, as GLOBAL NOTYPE of size 0 and section index UNDEF, keeps
\* the others, and never faults: output synthesis always goes on to copy the
\* symbols.
SymbolRewrite ==
    /\ []SymbolsRewritten
    /\ [][pc = "generate_output" => pc' = "copy_symbols"]_vars

\* the inclusion walk is over and output synthesis has not started
Walked == pc = "generate_output"

\* the relocation section attached to the patched section i is included, and
\* so is the target symbol of each of its relocations
RelaIncluded(i) ==
    LET rela == kelf_patched.sections[i].rela
    IN  rela # NULL =>
            /\ kelf_patched.sections[rela].include = 1
            /\ \A k \in 1..Len(kelf_patched.sections[rela].relas) :
                  kelf_patched.symbols[kelf_patched.sections[rela].relas[k].sym].include
                      = 1

\* the content sections the walk included
WalkedSections ==
    {i \in 1..Len(kelf_patched.sections) :
        /\ ~is_rela_section(kelf_patched.sections[i])
        /\ kelf_patched.sections[i].include = 1}

\* the content sections the walk included through a symbol other than the
\* section's own section symbol
WalkedThroughOther ==
    {i \in WalkedSections :
        \E p \in 2..Len(kelf_patched.symbols) :
            /\ walk.entered[p] > 0
            /\ kelf_patched.symbols[p].sec = i
            /\ ~IncludeStops(kelf_patched, p)
            /\ kelf_patched.sections[i].secsym # p}

\* C13 (relocation section follows its base): after the inclusion walk, every
\* included content section that has an attached relocation section has that
\* relocation section included and every target symbol of its relocations
\* included, whichever of its symbols the walk reached it through.
RelaFollowsBase ==
    Walked => \A i \in WalkedSections : RelaIncluded(i)

\* what does hold: the same for the sections reached through a symbol other
\* than their own section symbol
RelaFollowsBaseThroughOther ==
    Walked => \A i \in WalkedThroughOther : RelaIncluded(i)

\* comparison is over and nothing after it has run
JustCompared == pc = "replace_sections_syms"

\* entry k of the patched relocation section r has a structural pair in the
\* base graph: an entry of the twin of r that rela_equal accepts
StructuralPair(r, k) ==
    LET sec == kelf_patched.sections[r]
    IN  /\ sec.twin # NULL
        /\ \E b \in 1..Len(kelf_base.sections[sec.twin].relas) :
              rela_equal(kelf_base.sections[sec.twin].relas[b], kelf_base.symbols,
                         sec.relas[k], kelf_patched.symbols)

\* the patched relocation sections whose status out of the content-section
\* pass is SAME: that pass gives them the status of their base section
RefinedRelaSections ==
    {r \in 1..Len(kelf_patched.sections) :
        /\ is_rela_section(kelf_patched.sections[r])
        /\ NonrelaStatus(kelf_patched, kelf_base, kelf_patched.sections[r].base) = SAME}

\* some entry of the patched relocation section r has no structural pair
HasUnpaired(r) ==
    \E k \in 1..Len(kelf_patched.sections[r].relas) : ~StructuralPair(r, k)

\* C14 (relocation-section refinement): after comparison, a patched
\* relocation section that came out of the content-section pass SAME is
\* CHANGED, with CHANGED on its base section and on the base section's entity
\* symbol and section symbol, exactly when one of its entries has no
\* structural pair in the base graph; when all are paired it is SAME and so is
\* its base section, whatever symbol indexes the entries store.
RelaRefinement ==
    JustCompared =>
        \A r \in RefinedRelaSections :
            LET sec == kelf_patched.sections[r]
                base == kelf_patched.sections[sec.base]
            IN  IF HasUnpaired(r)
                THEN /\ sec.status = CHANGED
                     /\ base.status = CHANGED
                     /\ base.sym # NULL => kelf_patched.symbols[base.sym].status = CHANGED
                     /\ base.secsym # NULL =>
                           kelf_patched.symbols[base.secsym].status = CHANGED
                ELSE /\ sec.status = SAME
                     /\ base.status = SAME
                     /\ base.sym # NULL => kelf_patched.symbols[base.sym].status # CHANGED
                     /\ base.secsym # NULL =>
                           kelf_patched.symbols[base.secsym].status # CHANGED

\* after comparison one relocation section is SAME although an entry stores
\* another symbol index than its pair in base, and another relocation section
\* was upgraded to CHANGED together with its base section
RelaRefinementWitness ==
    /\ JustCompared
    /\ \E r \in RefinedRelaSections :
          /\ ~HasUnpaired(r)
          /\ kelf_patched.sections[r].status = SAME
          /\ \E k \in 1..Len(kelf_patched.sections[r].relas) :
                LET rela == kelf_patched.sections[r].relas[k]
                IN  /\ rela.twin # NULL
                    /\ GELF_R_SYM(rela.rela.r_info) #
                          GELF_R_SYM(kelf_base.sections[kelf_patched.sections[r].twin]
                                        .relas[rela.twin].rela.r_info)
    /\ \E r \in RefinedRelaSections :
          /\ HasUnpaired(r)
          /\ kelf_patched.sections[kelf_patched.sections[r].base].status = CHANGED

\* kpatch_correlate_elfs has returned
Correlated ==
    pc \in {"compare_nonrela_sections", "compare_symbols", "set_rela_section_status"}
    \/ Compared

\* the relocation sections of the base graph
BaseRelaSections ==
    {i \in 1..Len(kelf_base.sections) : is_rela_section(kelf_base.sections[i])}

\* after correlation the relocations of a base relocation section without a
\* twin are unpaired, and a paired relocation of a base relocation section
\* is paired with an entry of the twin section that points back at it
RelaPairsWithinTwins ==
    Correlated =>
        \A i \in BaseRelaSections :
            LET sec == kelf_base.sections[i]
            IN  \A a \in 1..Len(sec.relas) :
                    IF sec.twin = NULL
                    THEN sec.relas[a].twin = NULL /\ sec.relas[a].status = STATUS_NEW
                    ELSE sec.relas[a].twin # NULL =>
                            /\ sec.relas[a].twin
                                  \in 1..Len(kelf_patched.sections[sec.twin].relas)
                            /\ kelf_patched.sections[sec.twin].relas[sec.relas[a].twin].twin
                                  = a

\* C15 (relocation correlation is confined to twinned relocation sections):
\* relocations are paired only between a base relocation section and its
\* twin, the relocations of a base relocation section without a twin stay
\* unpaired, and for every pair of loaded graphs the correlator completes:
\* the run goes on from it to the comparator.
RelaCorrelationConfined ==
    /\ []RelaPairsWithinTwins
    /\ [][pc = "correlate_relas" => pc' = "compare_nonrela_sections"]_vars

\* the relocation entries attached to section i of graph kelf
AttachedRelas(kelf, i) ==
    IF kelf.sections[i].rela = NULL THEN <<>>
    ELSE kelf.sections[kelf.sections[i].rela].relas

\* the patched content sections that are SAME with, if they have one, a
\* relocation section that is SAME
SameSections ==
    {i \in 1..Len(kelf_patched.sections) :
        LET sec == kelf_patched.sections[i]
        IN  /\ ~is_rela_section(sec)
            /\ sec.twin # NULL
            /\ sec.status = SAME
            /\ sec.rela # NULL => kelf_patched.sections[sec.rela].status = SAME}

\* every relocation of the patched section i has a structural pair among the
\* relocations of its base twin
PatchedRelasPaired(i) ==
    LET prelas == AttachedRelas(kelf_patched, i)
        brelas == AttachedRelas(kelf_base, kelf_patched.sections[i].twin)
    IN  \A k \in 1..Len(prelas) : \E b \in 1..Len(brelas) :
            rela_equal(brelas[b], kelf_base.symbols, prelas[k], kelf_patched.symbols)

\* every relocation of the base twin of the patched section i has a
\* structural pair among the relocations of i
BaseRelasPaired(i) ==
    LET prelas == AttachedRelas(kelf_patched, i)
        brelas == AttachedRelas(kelf_base, kelf_patched.sections[i].twin)
    IN  \A b \in 1..Len(brelas) : \E k \in 1..Len(prelas) :
            rela_equal(brelas[b], kelf_base.symbols, prelas[k], kelf_patched.symbols)

\* C17 (SAME means relocation-equivalent to the twin): after comparison, when
\* a patched content section and its relocation section, if any, are SAME,
\* every relocation of the base twin has a structural pair on the patched
\* side and every relocation of the patched section has one on the base
\* side; a section that only lost relocations is not SAME.
SameMeansEquivalent ==
    JustCompared =>
        \A i \in SameSections : PatchedRelasPaired(i) /\ BaseRelasPaired(i)

\* what does hold: the patched side of the correspondence
SameMeansPatchedPaired ==
    JustCompared => \A i \in SameSections : PatchedRelasPaired(i)

\* the inclusion walk is running
Walking == pc = "include_changed_functions"

\* kpatch_include_symbol was called at most once on each symbol
EnteredOnce == \A p \in DOMAIN walk.entered : walk.entered[p] <= 1

\* C16 (closure termination): kpatch_include_symbol is entered at most once
\* for any symbol, and the inclusion walk, once started, comes to an end, also
\* when the relocations of the patched graph form cycles.
ClosureTermination ==
    /\ []EnteredOnce
    /\ Walking ~> ~Walking

\* the walk is over and went round a cycle: it entered a function that calls
\* itself, and two functions that refer to each other
ClosureTerminationWitness ==
    /\ Walked
    /\ \E p \in 2..Len(kelf_patched.symbols) :
          /\ walk.entered[p] = 1
          /\ p \in WalkTargets(kelf_patched, p)
          /\ \E q \in 2..Len(kelf_patched.symbols) :
                /\ q # p
                /\ walk.entered[q] = 1
                /\ q \in WalkTargets(kelf_patched, p)
                /\ p \in WalkTargets(kelf_patched, q)

\* the section index of the output symbol q is a reserved value, or the
\* index of the output section that is the copy of the owning section of the
\* patched symbol q was copied from
ValidSectionIndex(q) ==
    LET shndx == kelf_out.symbols[q].sym.st_shndx
        src == kelf_patched.symbols[kelf_out.symbols[q].twino]
    IN  \/ shndx \in {SHN_UNDEF, SHN_ABS, SHN_COMMON}
        \/ /\ shndx \in 1..Len(kelf_out.sections)
           /\ src.sec # NULL
           /\ kelf_out.sections[shndx].index = shndx
           /\ kelf_out.sections[shndx].twino = src.sec

\* C18 (output symbol section indexes are valid): once the symbols are
\* copied, the section index of every output symbol, of any type, is UNDEF,
\* ABS or COMMON or is the index of the output section copied from the
\* symbol's owning section; none is an index of the input numbering.
OutputSectionIndexes ==
    Synthesised => \A q \in 2..Len(kelf_out.symbols) : ValidSectionIndex(q)

\* what does hold: the same for the output symbols whose owning section is in
\* the output or that have none
OutputSectionIndexesOfIncluded ==
    Synthesised =>
        \A q \in 2..Len(kelf_out.symbols) :
            LET src == kelf_patched.symbols[kelf_out.symbols[q].twino]
            IN  (src.sec = NULL \/ kelf_patched.sections[src.sec].twino # NULL)
                    => ValidSectionIndex(q)

====
